---- MODULE Spec2Model ----
(***************************************************************************)
(* Resilience layer of the medical dataset processor:                      *)
(*   ProcessingLogger       (utils/logging.py)                              *)
(*   StateRecoveryManager   (utils/state_recovery.py)                       *)
(*   BatchProcessor         (utils/state_recovery.py)                       *)
(* One operating-system process at a time owns one ProcessingLogger and    *)
(* one BatchProcessor over a checkpoint directory that outlives it.        *)
(***************************************************************************)
EXTENDS Integers, Sequences, FiniteSets, TLC

\* ---------------------------------------------------------------- bounds
NumIds == 3
MaxRetry == 3
MaxSelectors == 2           \* sample ids are 1..NumIds
MaxBatch == 2         \* batch_size is drawn from 1..MaxBatch
MaxTime == 2          \* the wall clock runs over ticks 0..MaxTime
TicksPerSecond == 2   \* clock ticks within one strftime second
MaxBoots == 2         \* processes started over the checkpoint directory
MaxRuns == 2          \* process_samples_with_recovery calls, over all processes
MaxCalls == 3         \* direct calls on the logger and the recovery manager, over all processes
MaxErrors == 2        \* error records a logger accumulates

Ids == 1..NumIds

\* ------------------------------------------------------- python values
NoneVal == [ty |-> "None"]
EmptyDict == [ty |-> "dict", keys |-> {}]
ExtraDict == [ty |-> "dict", keys |-> {"custom_field"}]

IsNone(x) == x.ty = "None"

\* datetime.now() at tick t, and the str that isoformat() makes of it
DateTime(t) == [ty |-> "datetime", v |-> t]
IsoFormat(d) == [ty |-> "str", v |-> d.v]
FromIsoFormat(s) == [ty |-> "datetime", v |-> s.v]

\* an ErrorSeverity member, and its .value
Severity(name) == [ty |-> "ErrorSeverity", v |-> name]
SeverityValue(s) == [ty |-> "str", v |-> s.v]

\* strftime('%Y%m%d_%H%M%S') keeps whole seconds only
StrfTime(t) == t \div TicksPerSecond

\* -------------------------------------------------------------- helpers
InSeq(x, s) == \E i \in 1..Len(s) : s[i] = x
SeqToSet(s) == {s[i] : i \in 1..Len(s)}
Remove(x, s) ==
  IF InSeq(x, s)
  THEN LET k == CHOOSE i \in 1..Len(s) : s[i] = x /\ \A j \in 1..(i-1) : s[j] # x
       IN  SubSeq(s, 1, k-1) \o SubSeq(s, k+1, Len(s))
  ELSE s

\* lists of samples with distinct ids, each sample given by its id
SampleLists ==
  {s \in UNION {[1..n -> Ids] : n \in 1..NumIds} :
     \A i, j \in 1..Len(s) : i # j => s[i] # s[j]}

\* the lists the callers pass to a run: the first n samples of the pool
PoolLists == {s \in SampleLists : \A i \in 1..Len(s) : s[i] = i}

\* ------------------------------------------------ ProcessingStats
DefaultStats ==
  [total_samples |-> 0, successful_translations |-> 0, failed_translations |-> 0,
   successful_generations |-> 0, failed_generations |-> 0, api_calls_made |-> 0,
   total_processing_time |-> 0, start_time |-> NoneVal, end_time |-> NoneVal]

StatsToDict(st) ==
  [st EXCEPT !.start_time = IF IsNone(st.start_time) THEN NoneVal ELSE IsoFormat(st.start_time),
             !.end_time = IF IsNone(st.end_time) THEN NoneVal ELSE IsoFormat(st.end_time)]

\* ProcessingStats(**stats_data), then the two times parsed when present
StatsFromDict(d) ==
  [d EXCEPT !.start_time = IF IsNone(d.start_time) THEN NoneVal ELSE FromIsoFormat(d.start_time),
            !.end_time = IF IsNone(d.end_time) THEN NoneVal ELSE FromIsoFormat(d.end_time)]

\* ------------------------------------------------ APIError
APIError(api_name, error_type, sample_id, timestamp, retry_count, severity) ==
  [api_name |-> api_name, error_type |-> error_type, sample_id |-> sample_id,
   timestamp |-> timestamp, retry_count |-> retry_count, severity |-> severity]

\* to_dict calls timestamp.isoformat() and severity.value: it raises
\* AttributeError on a record whose timestamp is a str
ErrorToDictRaises(e) == e.timestamp.ty # "datetime" \/ e.severity.ty # "ErrorSeverity"

ErrorToDict(e) ==
  [e EXCEPT !.timestamp = IsoFormat(e.timestamp), !.severity = SeverityValue(e.severity)]

\* APIError(**error_data): the dict's values become the fields as they are
ErrorFromDict(d) ==
  APIError(d.api_name, d.error_type, d.sample_id, d.timestamp, d.retry_count, d.severity)

\* ------------------------------------------------ ProcessingState
ProcessingState(processed_samples, failed_samples, current_dataset, processing_stage, stats, checkpoint_timestamp) ==
  [processed_samples |-> processed_samples, failed_samples |-> failed_samples,
   current_dataset |-> current_dataset, processing_stage |-> processing_stage,
   stats |-> stats, checkpoint_timestamp |-> checkpoint_timestamp]

StateToDict(s) ==
  [s EXCEPT !.stats = StatsToDict(s.stats),
            !.checkpoint_timestamp = IsoFormat(s.checkpoint_timestamp)]

StateFromDict(d) ==
  ProcessingState(d.processed_samples, d.failed_samples, d.current_dataset,
                  d.processing_stage, StatsFromDict(d.stats),
                  FromIsoFormat(d.checkpoint_timestamp))

\* ------------------------------------------------ ProcessingLogger
\* __init__ at tick t: no errors, default stats, default state
NewLogger(t) ==
  [errors |-> <<>>,
   stats |-> DefaultStats,
   state |-> ProcessingState(<<>>, <<>>, NoneVal, "not_started", DefaultStats, DateTime(t))]

FatalKinds == {"AuthenticationError", "PermissionError", "ConfigurationError"}
TransientKinds == {"APIError", "HTTPError", "RequestException"}
HighRetryCount == 3

\* the retry count is looked at before the kind
SeverityRetryFirst(error_type, retry_count) ==
  IF retry_count >= HighRetryCount THEN Severity("high")
  ELSE IF error_type \in FatalKinds THEN Severity("critical")
  ELSE IF error_type \in TransientKinds THEN Severity("medium")
  ELSE Severity("low")

DetermineErrorSeverity(error_type, retry_count) ==
  IF error_type \in FatalKinds THEN Severity("critical")
  ELSE IF retry_count >= HighRetryCount THEN Severity("high")
  ELSE IF error_type \in TransientKinds THEN Severity("medium")
  ELSE Severity("low")

\* the name is compared as given
NoLower(name) == name

\* str.lower() on the collaborator names the model uses
Lower(name) ==
  CASE name = "DeepL" -> "deepl"
    [] name = "OpenAI" -> "openai"
    [] name = "Translation" -> "translation"
    [] name = "GENERATION" -> "generation"
    [] name = "Anthropic" -> "anthropic"
    [] OTHER -> name

LogApiError(l, api_name, error_type, sample_id, retry_count, t) ==
  LET severity == DetermineErrorSeverity(error_type, retry_count)
      api_error == APIError(api_name, error_type, sample_id, DateTime(t), retry_count, severity)
      low == Lower(api_name)
  IN  [l EXCEPT !.errors = Append(@, api_error),
                !.stats = IF low \in {"deepl", "translation"}
                          THEN [@ EXCEPT !.failed_translations = @ + 1]
                          ELSE IF low \in {"openai", "generation"}
                          THEN [@ EXCEPT !.failed_generations = @ + 1]
                          ELSE @]

\* the dataset is set to what was given, None included
UpdateStageAndDataset(l, stage_name, dataset_name) ==
  [l EXCEPT !.state.processing_stage = stage_name,
            !.state.current_dataset = dataset_name]

\* `if dataset:` is false for None and for the empty string
UpdateProcessingStage(l, stage_name, dataset_name) ==
  [l EXCEPT !.state.processing_stage = stage_name,
            !.state.current_dataset =
              IF IsNone(dataset_name) \/ dataset_name.v = "" THEN @ ELSE dataset_name]

\* the id is added to processed_samples and left in failed_samples
MarkProcessedKeepFailed(l, sample_id) ==
  [l EXCEPT !.state.processed_samples = IF InSeq(sample_id, @) THEN @ ELSE Append(@, sample_id)]

MarkSampleProcessed(l, sample_id) ==
  [l EXCEPT !.state.processed_samples = IF InSeq(sample_id, @) THEN @ ELSE Append(@, sample_id),
            !.state.failed_samples = Remove(sample_id, @)]

MarkSampleFailed(l, sample_id) ==
  [l EXCEPT !.state.failed_samples = IF InSeq(sample_id, @) THEN @ ELSE Append(@, sample_id)]

\* save_checkpoint at tick t.  The checkpoint timestamp is set first; building
\* the dict raises when an error record cannot be converted, before the file
\* is opened, so a raising save writes nothing.
SaveRaises(l) == \E i \in 1..Len(l.errors) : ErrorToDictRaises(l.errors[i])

Truthy(d) == ~IsNone(d) /\ d.keys # {}

CheckpointData(l, additional_data) ==
  [ty |-> "dict",
   state |-> StateToDict(l.state),
   errors |-> [i \in 1..Len(l.errors) |-> ErrorToDict(l.errors[i])],
   stats |-> StatsToDict(l.stats),
   additional_data |-> IF Truthy(additional_data) THEN additional_data ELSE NoneVal]

CheckpointFileName(t) == StrfTime(t)

SaveCheckpoint(l, fs, additional_data, t) ==
  LET l1 == [l EXCEPT !.state.checkpoint_timestamp = DateTime(t)]
  IN  IF SaveRaises(l1)
      THEN [raised |-> TRUE, lg |-> l1, files |-> fs]
      ELSE LET name == CheckpointFileName(t)
               rec == [name |-> name, mtime |-> t, data |-> CheckpointData(l1, additional_data)]
           IN  [raised |-> FALSE, lg |-> l1,
                files |-> {f \in fs : f.name # name} \cup {rec}]

\* the file of that kind and name is created, or emptied, and written
WriteArtifact(dir, kind, name, content) ==
  {f \in dir : f.kind # kind \/ f.name # name}
    \cup {[kind |-> kind, name |-> name, content |-> content]}

\* stats_<time>.json and error_report_<time>.json take their name from the
\* time of the request
ArtifactName(t) == StrfTime(t)

\* the name log_processing_stats and generate_error_report give their file
NewArtifactName(dir, kind, t) == ArtifactName(t)

\* log_processing_stats(stats) at tick t: self.stats is replaced, the stats
\* file written
LogProcessingStats(l, dir, stats, t) ==
  [lg |-> [l EXCEPT !.stats = stats],
   log_dir |-> WriteArtifact(dir, "stats", NewArtifactName(dir, "stats", t), StatsToDict(stats))]

\* ErrorReport.to_dict
ReportToDict(l, t) ==
  [errors |-> [i \in 1..Len(l.errors) |-> ErrorToDict(l.errors[i])],
   stats |-> StatsToDict(l.stats),
   generation_timestamp |-> IsoFormat(DateTime(t)),
   total_errors |-> Len(l.errors)]

\* generate_error_report at tick t: the file is opened first, so a to_dict
\* that raises leaves it empty
GenerateErrorReport(l, dir, t) ==
  LET raised == SaveRaises(l)
  IN  [raised |-> raised,
       log_dir |-> WriteArtifact(dir, "error_report", NewArtifactName(dir, "error_report", t),
                                 IF raised THEN [ty |-> "empty"] ELSE ReportToDict(l, t))]

\* the content of a record that pickle.load cannot read
Corrupt == [ty |-> "corrupt"]

\* the record of least modification time
OldestCheckpoint(fs) == CHOOSE f \in fs : \A g \in fs : f.mtime <= g.mtime

\* max(checkpoint_files, key=st_mtime)
LatestCheckpoint(fs) == CHOOSE f \in fs : \A g \in fs : g.mtime <= f.mtime

\* the latest record that can be read is loaded, whatever newer ones there are
LoadNewestReadable(l, fs) ==
  LET ok == {f \in fs : f.data # Corrupt}
  IN  IF ok = {}
      THEN [data |-> NoneVal, lg |-> l]
      ELSE LET d == LatestCheckpoint(ok).data
           IN  [data |-> d,
                lg |-> [errors |-> [i \in 1..Len(d.errors) |-> ErrorFromDict(d.errors[i])],
                        stats |-> StatsFromDict(d.stats),
                        state |-> StateFromDict(d.state)]]

\* no record: None.  pickle.load raising inside the try: the logger is left
\* as it was and None is returned.
LoadLatestCheckpoint(l, fs) ==
  IF fs = {}
  THEN [data |-> NoneVal, lg |-> l]
  ELSE LET d == LatestCheckpoint(fs).data
       IN  IF d = Corrupt
           THEN [data |-> NoneVal, lg |-> l]
           ELSE [data |-> d,
                 lg |-> [errors |-> [i \in 1..Len(d.errors) |-> ErrorFromDict(d.errors[i])],
                         stats |-> StatsFromDict(d.stats),
                         state |-> StateFromDict(d.state)]]

\* ------------------------------------------------ StateRecoveryManager
\* ProcessingState.from_dict keeps the lists of the loaded dict: after a load
\* made by can_recover, recovery_data["state"]'s processed_samples and
\* failed_samples are the very list objects of logger.state, so the logger's
\* in-place appends and removes show in recovery_data.  `sh` says whether the
\* lists are shared; Shared gives recovery_data as the heap then holds it.
Shared(rd, l, sh) ==
  IF sh /\ ~IsNone(rd)
  THEN [rd EXCEPT !.state.processed_samples = l.state.processed_samples,
                  !.state.failed_samples = l.state.failed_samples]
  ELSE rd

CanRecover(rd, l, fs, sh) ==
  IF IsNone(rd)
  THEN LET r == LoadLatestCheckpoint(l, fs)
       IN  [recovery_data |-> r.data, lg |-> r.lg, result |-> ~IsNone(r.data),
            shared |-> ~IsNone(r.data), loads |-> 1]
  ELSE [recovery_data |-> rd, lg |-> l, result |-> TRUE, shared |-> sh, loads |-> 0]

GetProcessedSampleIds(rd) == SeqToSet(rd.state.processed_samples)
GetFailedSampleIds(rd) == SeqToSet(rd.state.failed_samples)

\* only the processed ids are skipped
SkipProcessedOnly(rd) == GetProcessedSampleIds(rd)

SkipIds(rd) == GetProcessedSampleIds(rd) \cup GetFailedSampleIds(rd)

\* the filtering loop starts at the second sample
FilterFromSecond(samples, rd, l, fs, sh) ==
  LET c == CanRecover(rd, l, fs, sh)
  IN  [recovery_data |-> c.recovery_data, lg |-> c.lg, shared |-> c.shared,
       loads |-> c.loads,
       result |-> IF ~c.result THEN samples
                  ELSE LET skip_ids == SkipIds(c.recovery_data)
                           Keep(x) == x \notin skip_ids
                       IN  IF samples = <<>> THEN <<>> ELSE SelectSeq(Tail(samples), Keep)]

FilterSamplesForProcessing(samples, rd, l, fs, sh) ==
  LET c == CanRecover(rd, l, fs, sh)
  IN  [recovery_data |-> c.recovery_data, lg |-> c.lg, shared |-> c.shared,
       loads |-> c.loads,
       result |-> IF ~c.result THEN samples
                  ELSE LET skip_ids == SkipIds(c.recovery_data)
                           Keep(x) == x \notin skip_ids
                       IN  SelectSeq(samples, Keep)]

\* stage_order of should_resume_from_stage
StageOrder ==
  <<"not_started", "loading", "selecting", "translating", "generating",
    "consolidating", "exporting", "completed">>

\* whether stage_order.index(stage) finds the stage (it raises ValueError if not)
InStageOrder(stage) == \E i \in 1..Len(StageOrder) : StageOrder[i] = stage

\* stage_order.index(stage)
StageIndex(stage) == CHOOSE i \in 1..Len(StageOrder) : StageOrder[i] = stage

GetCurrentProcessingStage(rd, l, fs, sh) ==
  LET c == CanRecover(rd, l, fs, sh)
  IN  [recovery_data |-> c.recovery_data, lg |-> c.lg, shared |-> c.shared,
       loads |-> c.loads,
       result |-> IF ~c.result THEN "not_started"
                  ELSE c.recovery_data.state.processing_stage]

\* resume only when the target stage is after the current one
ResumeStrictlyLater(current_stage, target_stage) ==
  IF InStageOrder(current_stage) /\ InStageOrder(target_stage)
  THEN StageIndex(target_stage) > StageIndex(current_stage)
  ELSE TRUE

\* a stage that is not in the order is not resumed
ResumeKnownOnly(current_stage, target_stage) ==
  IF InStageOrder(current_stage) /\ InStageOrder(target_stage)
  THEN StageIndex(target_stage) >= StageIndex(current_stage)
  ELSE FALSE

\* the try block of should_resume_from_stage: the two indexes compared, True
\* when either lookup raises ValueError
ResumeDecision(current_stage, target_stage) ==
  IF InStageOrder(current_stage) /\ InStageOrder(target_stage)
  THEN StageIndex(target_stage) >= StageIndex(current_stage)
  ELSE TRUE

\* without recovery data the answer is True
ResumeWithoutData(target_stage, rd, l, fs, sh) ==
  LET c == CanRecover(rd, l, fs, sh)
  IN  [recovery_data |-> c.recovery_data, lg |-> c.lg, shared |-> c.shared,
       loads |-> c.loads, result |-> TRUE]

ShouldResumeFromStage(target_stage, rd, l, fs, sh) ==
  LET c == CanRecover(rd, l, fs, sh)
  IN  IF ~c.result
      THEN [recovery_data |-> c.recovery_data, lg |-> c.lg, shared |-> c.shared,
            loads |-> c.loads, result |-> FALSE]
      ELSE LET g == GetCurrentProcessingStage(c.recovery_data, c.lg, fs, c.shared)
           IN  [recovery_data |-> g.recovery_data, lg |-> g.lg, shared |-> g.shared,
                loads |-> c.loads + g.loads,
                result |-> ResumeDecision(g.result, target_stage)]

\* get_recovery_info: None without recovery data, else counts read from it
GetRecoveryInfo(rd, l, fs, sh) ==
  LET c == CanRecover(rd, l, fs, sh)
      d == c.recovery_data
  IN  [recovery_data |-> c.recovery_data, lg |-> c.lg, shared |-> c.shared,
       loads |-> c.loads,
       result |-> IF ~c.result THEN NoneVal
                  ELSE [ty |-> "dict",
                        processing_stage |-> d.state.processing_stage,
                        current_dataset |-> d.state.current_dataset,
                        processed_samples_count |-> Len(d.state.processed_samples),
                        failed_samples_count |-> Len(d.state.failed_samples),
                        total_errors |-> Len(d.errors),
                        checkpoint_timestamp |-> d.state.checkpoint_timestamp,
                        last_stats |-> [total_samples |-> d.stats.total_samples,
                                        successful_translations |->
                                          d.stats.successful_translations,
                                        successful_generations |->
                                          d.stats.successful_generations,
                                        failed_translations |-> d.stats.failed_translations,
                                        failed_generations |-> d.stats.failed_generations]]]

\* should_skip_sample: get_processed_sample_ids, then get_failed_sample_ids,
\* each through can_recover
ShouldSkipSample(sample_id, rd, l, fs, sh) ==
  LET p == CanRecover(rd, l, fs, sh)
      f == CanRecover(p.recovery_data, p.lg, fs, p.shared)
      processed_ids == IF p.result THEN GetProcessedSampleIds(p.recovery_data) ELSE {}
      failed_ids == IF f.result THEN GetFailedSampleIds(f.recovery_data) ELSE {}
  IN  [recovery_data |-> f.recovery_data, lg |-> f.lg, shared |-> f.shared,
       loads |-> p.loads + f.loads,
       result |-> sample_id \in processed_ids \/ sample_id \in failed_ids]

\* create_recovery_summary: can_recover, then the lines made of get_recovery_info
CreateRecoverySummary(rd, l, fs, sh) ==
  LET c == CanRecover(rd, l, fs, sh)
      g == GetRecoveryInfo(c.recovery_data, c.lg, fs, c.shared)
  IN  IF ~c.result
      THEN [recovery_data |-> c.recovery_data, lg |-> c.lg, shared |-> c.shared,
            loads |-> c.loads, result |-> "No recovery data available."]
      ELSE [recovery_data |-> g.recovery_data, lg |-> g.lg, shared |-> g.shared,
            loads |-> c.loads + g.loads,
            result |-> IF IsNone(g.result) THEN "No recovery information available."
                       ELSE [g.result EXCEPT !.ty = "lines",
                               !.current_dataset = IF Truthy(@) THEN @ ELSE [ty |-> "str", v |-> "None"]]]

\* the cached recovery data is kept
KeepRecoveryData(rd) == rd

\* clear_recovery_data: self.recovery_data = None
ClearRecoveryData(rd) == NoneVal

\* ------------------------------------------------ state
VARIABLES
  now,            \* wall clock, in ticks
  files,          \* checkpoint directory: records [name, mtime, data]
  log_dir,        \* log directory: the stats and error report files
  lg,             \* the process's ProcessingLogger: errors, stats, state
  recovery_data,  \* StateRecoveryManager.recovery_data
  shared,         \* recovery_data's state lists are the logger's state lists
  batch_size,     \* BatchProcessor.batch_size
  rng,            \* state of the random module's shared generator
  selectors,      \* the SampleSelector instances made so far: their random_seed
  selections,     \* the selections observed so far: call, arguments, result
  pc,             \* "idle", or the position inside process_samples_with_recovery
  retry,          \* locals of the last _translate_single_sample or _generate_single_sample call
  run,            \* locals of the process_samples_with_recovery call in progress
  last,           \* the last call made on the process's objects and what it returned
  hist            \* history: what the clients of the objects have observed

vars ==
  <<now, files, log_dir, lg, recovery_data, shared, batch_size, rng, selectors, selections,
    pc, retry, run, last, hist>>

\* a process that has made no SampleSelector
NoSelector == rng = 0 /\ selectors = <<>> /\ selections = {}

NoRun ==
  [samples |-> <<>>, samples_to_process |-> <<>>, i |-> 0, pos |-> 0, batch_results |-> <<>>,
   results |-> <<>>, stage_name |-> "", dataset_name |-> NoneVal,
   invoked |-> <<>>, saved |-> 0, fresh |-> FALSE, resume_point |-> NoneVal,
   errors_before |-> 0, settled_before |-> {}, save_raised |-> FALSE,
   previous |-> NoneVal]

\* no per-item call made yet
NoRetry ==
  [processor |-> "", max_retries |-> 0, attempt |-> 0, outcomes |-> <<>>, waits |-> <<>>,
   last_exception |-> NoneVal, status |-> "idle", ret |-> NoneVal]

NoCall == [op |-> "none", arg |-> NoneVal, ret |-> NoneVal]

NewHist ==
  [boots |-> 1, runs |-> 0, calls |-> 0, used |-> FALSE,
   last_mark |-> [x \in Ids |-> "none"],
   saves |-> 0, last_saved |-> NoneVal, last_saved_lg |-> NoneVal, loads |-> 0,
   stats_requests |-> 0, report_requests |-> 0, interrupted |-> NoneVal]

Init ==
  /\ now = 0
  /\ files = {}
  /\ log_dir = {}
  /\ lg = NewLogger(0)
  /\ recovery_data = NoneVal
  /\ shared = FALSE
  /\ NoSelector
  /\ batch_size \in 1..MaxBatch
  /\ pc = "idle"
  /\ retry = NoRetry
  /\ run = NoRun
  /\ last = NoCall
  /\ hist = NewHist

\* history kept when save_checkpoint has written a record
Saved(h, r, additional_data) ==
  IF r.raised THEN h
  ELSE [h EXCEPT !.saves = @ + 1,
                 !.last_saved = CheckpointData(r.lg, additional_data),
                 !.last_saved_lg = r.lg]

\* ------------------------------------------------ the clock
Tick ==
  /\ now < MaxTime
  /\ now' = now + 1
  /\ UNCHANGED <<retry, log_dir, rng, selectors, selections, files, lg, recovery_data, shared, batch_size, pc, run, last, hist>>

\* ------------------------------------------------ direct ProcessingLogger calls
CanCall == pc = "idle" /\ hist.calls < MaxCalls

Bool(b) == [ty |-> "bool", v |-> b]
Str(v) == [ty |-> "str", v |-> v]

\* the sample_id argument of a call
SampleId(id) == [ty |-> "sample_id", v |-> id]

CallMarkSampleProcessed(id) ==
  /\ CanCall
  /\ lg' = MarkSampleProcessed(lg, id)
  /\ last' = [op |-> "mark_sample_processed", arg |-> SampleId(id), ret |-> NoneVal]
  /\ hist' = [hist EXCEPT !.calls = @ + 1, !.used = TRUE, !.last_mark[id] = "processed"]
  /\ recovery_data' = Shared(recovery_data, lg', shared)
  /\ UNCHANGED <<retry, log_dir, rng, selectors, selections, now, files, shared, batch_size, pc, run>>

CallMarkSampleFailed(id) ==
  /\ CanCall
  /\ lg' = MarkSampleFailed(lg, id)
  /\ last' = [op |-> "mark_sample_failed", arg |-> SampleId(id), ret |-> NoneVal]
  /\ hist' = [hist EXCEPT !.calls = @ + 1, !.used = TRUE, !.last_mark[id] = "failed"]
  /\ recovery_data' = Shared(recovery_data, lg', shared)
  /\ UNCHANGED <<retry, log_dir, rng, selectors, selections, now, files, shared, batch_size, pc, run>>

CallLogApiError(api_name, error_type, sample_id, retry_count) ==
  /\ CanCall
  /\ Len(lg.errors) < MaxErrors
  /\ lg' = LogApiError(lg, api_name, error_type, sample_id, retry_count, now)
  /\ last' = [op |-> "log_api_error", arg |-> Str(api_name), ret |-> NoneVal]
  /\ hist' = [hist EXCEPT !.calls = @ + 1, !.used = TRUE]
  /\ UNCHANGED <<retry, log_dir, rng, selectors, selections, now, files, recovery_data, shared, batch_size, pc, run>>

CallSaveCheckpoint(additional_data) ==
  /\ CanCall
  /\ LET r == SaveCheckpoint(lg, files, additional_data, now)
     IN  /\ lg' = r.lg
         /\ files' = r.files
         /\ last' = [op |-> "save_checkpoint", arg |-> NoneVal,
                     ret |-> IF r.raised THEN [ty |-> "raised"] ELSE NoneVal]
         /\ hist' = [Saved(hist, r, additional_data) EXCEPT !.calls = @ + 1, !.used = TRUE]
  /\ UNCHANGED <<retry, log_dir, rng, selectors, selections, now, recovery_data, shared, batch_size, pc, run>>

CallLoadLatestCheckpoint ==
  /\ CanCall
  /\ LET r == LoadLatestCheckpoint(lg, files)
     IN  /\ lg' = r.lg
         /\ shared' = (shared /\ IsNone(r.data))
         /\ last' = [op |-> "load_latest_checkpoint", arg |-> NoneVal, ret |-> r.data]
         /\ hist' = [hist EXCEPT !.calls = @ + 1, !.used = TRUE,
                                 !.last_mark = IF IsNone(r.data) THEN @
                                               ELSE [x \in Ids |-> "none"]]
  /\ UNCHANGED <<retry, log_dir, rng, selectors, selections, now, files, recovery_data, batch_size, pc, run>>

\* the stats the client reports
ClientStats == {DefaultStats, [DefaultStats EXCEPT !.total_samples = NumIds]}

CallLogProcessingStats(stats) ==
  /\ CanCall
  /\ LET r == LogProcessingStats(lg, log_dir, stats, now)
     IN  /\ lg' = r.lg
         /\ log_dir' = r.log_dir
  /\ last' = [op |-> "log_processing_stats", arg |-> NoneVal, ret |-> NoneVal]
  /\ hist' = [hist EXCEPT !.calls = @ + 1, !.used = TRUE, !.stats_requests = @ + 1]
  /\ UNCHANGED <<retry, rng, selectors, selections, now, files, recovery_data, shared, batch_size, pc, run>>

CallGenerateErrorReport ==
  /\ CanCall
  /\ LET r == GenerateErrorReport(lg, log_dir, now)
     IN  /\ log_dir' = r.log_dir
         /\ last' = [op |-> "generate_error_report", arg |-> NoneVal,
                     ret |-> IF r.raised THEN [ty |-> "raised"] ELSE NoneVal]
  /\ hist' = [hist EXCEPT !.calls = @ + 1, !.used = TRUE, !.report_requests = @ + 1]
  /\ UNCHANGED <<retry, rng, selectors, selections, now, files, lg, recovery_data, shared, batch_size, pc, run>>

\* ------------------------------------------------ direct StateRecoveryManager calls
List(v) == [ty |-> "list", v |-> v]

Filtering(samples, arg) ==
  /\ CanCall
  /\ LET f == FilterSamplesForProcessing(samples, recovery_data, lg, files, shared)
     IN  /\ lg' = f.lg
         /\ recovery_data' = f.recovery_data
         /\ shared' = f.shared
         /\ last' = [op |-> "filter_samples_for_processing", arg |-> arg,
                     ret |-> List(f.result)]
         /\ hist' = [hist EXCEPT !.calls = @ + 1, !.used = TRUE,
                                 !.loads = @ + f.loads,
                                 !.last_mark = IF f.lg.state = lg.state THEN @
                                               ELSE [x \in Ids |-> "none"]]
  /\ UNCHANGED <<retry, log_dir, rng, selectors, selections, now, files, batch_size, pc, run>>

CallFilterSamples(samples) ==
  Filtering(samples, [ty |-> "list", v |-> samples, from_filter |-> FALSE, prev |-> <<>>])

\* the list a filter call returned is filtered again
CallFilterAgain ==
  /\ last.op = "filter_samples_for_processing"
  /\ Filtering(last.ret.v,
               [ty |-> "list", v |-> last.ret.v, from_filter |-> TRUE, prev |-> last.arg.v])


\* a call on the recovery manager that returned: r is what the method made of
\* the manager and its logger
ManagerCall(op, arg, r, ret) ==
  /\ CanCall
  /\ lg' = r.lg
  /\ recovery_data' = r.recovery_data
  /\ shared' = r.shared
  /\ last' = [op |-> op, arg |-> arg, ret |-> ret]
  /\ hist' = [hist EXCEPT !.calls = @ + 1, !.used = TRUE,
                          !.loads = @ + r.loads,
                          !.last_mark = IF r.lg.state = lg.state THEN @
                                        ELSE [x \in Ids |-> "none"]]
  /\ UNCHANGED <<retry, log_dir, rng, selectors, selections, now, files, batch_size, pc, run>>

CallCanRecover ==
  LET r == CanRecover(recovery_data, lg, files, shared)
  IN  ManagerCall("can_recover", NoneVal, r, Bool(r.result))

CallGetCurrentProcessingStage ==
  LET r == GetCurrentProcessingStage(recovery_data, lg, files, shared)
  IN  ManagerCall("get_current_processing_stage", NoneVal, r, Str(r.result))

CallShouldResumeFromStage(target_stage) ==
  LET r == ShouldResumeFromStage(target_stage, recovery_data, lg, files, shared)
  IN  ManagerCall("should_resume_from_stage", Str(target_stage), r, Bool(r.result))

CallGetRecoveryInfo ==
  LET r == GetRecoveryInfo(recovery_data, lg, files, shared)
  IN  ManagerCall("get_recovery_info", NoneVal, r, r.result)

CallShouldSkipSample(sample_id) ==
  LET r == ShouldSkipSample(sample_id, recovery_data, lg, files, shared)
  IN  ManagerCall("should_skip_sample", SampleId(sample_id), r, Bool(r.result))

CallCreateRecoverySummary ==
  LET r == CreateRecoverySummary(recovery_data, lg, files, shared)
  IN  ManagerCall("create_recovery_summary", NoneVal, r, Str(r.result))

\* clear_recovery_data touches the manager's cache only
CallClearRecoveryData ==
  /\ CanCall
  /\ recovery_data' = ClearRecoveryData(recovery_data)
  /\ shared' = (shared /\ ~IsNone(recovery_data'))
  /\ last' = [op |-> "clear_recovery_data", arg |-> Bool(~IsNone(recovery_data)),
              ret |-> NoneVal]
  /\ hist' = [hist EXCEPT !.calls = @ + 1, !.used = TRUE]
  /\ UNCHANGED <<retry, log_dir, rng, selectors, selections, now, files, lg, batch_size, pc, run>>

\* logger.update_processing_stage called by the client
CallUpdateProcessingStage(stage, dataset) ==
  /\ CanCall
  /\ lg' = UpdateProcessingStage(lg, stage, dataset)
  /\ last' = [op |-> "update_processing_stage",
              arg |-> [ty |-> "str", v |-> stage, dataset |-> dataset], ret |-> NoneVal]
  /\ hist' = [hist EXCEPT !.calls = @ + 1, !.used = TRUE]
  /\ UNCHANGED <<retry, log_dir, rng, selectors, selections, now, files, recovery_data, shared, batch_size, pc, run>>

\* ------------------------------------------------ BatchProcessor
\* the exception classes process_function raises in the model
ErrorTypes == {"ValueError"}
\* the (stage_name, dataset_name) pairs the callers pass
RunArgs == {<<"translating", [ty |-> "str", v |-> "medqa"]>>, <<"generating", NoneVal>>}

Min(a, b) == IF a < b THEN a ELSE b

\* samples_to_process[i:i + batch_size]
Batch(r) == SubSeq(r.samples_to_process, r.i + 1,
                   Min(r.i + batch_size, Len(r.samples_to_process)))

\* the batch loop is entered whatever the filtered list holds
AlwaysEnterLoop(samples_to_process) == "item"

\* an empty filtered list returns at once, else the batch loop is entered
RunEntry(samples_to_process) ==
  IF Len(samples_to_process) = 0 THEN "returned" ELSE "item"

\* process_samples_with_recovery, up to the first item: the stage is updated,
\* then the samples are filtered (which may load the latest checkpoint)
StartRun(samples, stage_name, dataset_name) ==
  /\ pc = "idle"
  /\ hist.runs < MaxRuns
  /\ LET l1 == UpdateProcessingStage(lg, stage_name, dataset_name)
         f == FilterSamplesForProcessing(samples, recovery_data, l1, files, shared)
     IN  /\ lg' = f.lg
         /\ recovery_data' = f.recovery_data
         /\ shared' = f.shared
         /\ run' = [NoRun EXCEPT !.samples = samples,
                                 !.samples_to_process = f.result,
                                 !.stage_name = stage_name,
                                 !.dataset_name = dataset_name,
                                 !.fresh = ~hist.used,
                                 !.resume_point = hist.last_saved,
                                 !.errors_before = Len(f.lg.errors),
                                 !.previous =
                                   IF last.op = "process_samples_with_recovery"
                                   THEN last.arg ELSE NoneVal,
                                 !.settled_before =
                                   SeqToSet(f.lg.state.processed_samples)
                                     \cup SeqToSet(f.lg.state.failed_samples)]
         /\ pc' = RunEntry(f.result)
         /\ hist' = [hist EXCEPT !.runs = @ + 1, !.used = TRUE,
                                 !.loads = @ + f.loads,
                                 !.last_mark = IF f.lg.state = l1.state THEN @
                                               ELSE [x \in Ids |-> "none"]]
  /\ last' = [op |-> "process_samples_with_recovery", arg |-> NoneVal, ret |-> NoneVal]
  /\ UNCHANGED <<retry, log_dir, rng, selectors, selections, now, files, batch_size>>

Sample(r) == r.samples_to_process[r.i + r.pos + 1]

\* a checkpoint is saved after every item
SaveAfterEveryItem(r) == "save"

AfterItem(r) ==
  IF r.pos + 1 = Len(Batch(r)) THEN "save" ELSE "item"

\* process_function(sample) returns: result kept, sample marked processed
ProcessItemOk ==
  /\ pc = "item"
  /\ lg' = MarkSampleProcessed(lg, Sample(run))
  /\ run' = [run EXCEPT !.batch_results = Append(@, Sample(run)),
                        !.pos = @ + 1,
                        !.invoked = Append(@, [id |-> Sample(run), ok |-> TRUE,
                                              error_type |-> ""])]
  /\ pc' = AfterItem(run)
  /\ hist' = [hist EXCEPT !.last_mark[Sample(run)] = "processed"]
  /\ recovery_data' = Shared(recovery_data, lg', shared)
  /\ UNCHANGED <<retry, log_dir, rng, selectors, selections, now, files, shared, batch_size, last>>

\* process_function(sample) raises: error logged, sample marked failed
ProcessItemRaises(error_type) ==
  /\ pc = "item"
  /\ Len(lg.errors) < MaxErrors
  /\ lg' = MarkSampleFailed(
             LogApiError(lg, run.stage_name, error_type, Sample(run), 0, now),
             Sample(run))
  /\ run' = [run EXCEPT !.pos = @ + 1,
                        !.invoked = Append(@, [id |-> Sample(run), ok |-> FALSE,
                                              error_type |-> error_type])]
  /\ pc' = AfterItem(run)
  /\ hist' = [hist EXCEPT !.last_mark[Sample(run)] = "failed"]
  /\ recovery_data' = Shared(recovery_data, lg', shared)
  /\ UNCHANGED <<retry, log_dir, rng, selectors, selections, now, files, shared, batch_size, last>>

BatchInfo(r) ==
  [ty |-> "dict", keys |-> {"stage", "dataset", "batch_number", "processed_in_batch"},
   stage |-> r.stage_name, dataset |-> r.dataset_name,
   batch_number |-> (r.i \div batch_size) + 1,
   processed_in_batch |-> Len(r.batch_results)]

\* the batch's results are put in front of the earlier ones
PrependResults(results, batch_results) == batch_results \o results

\* results.extend(batch_results)
ExtendResults(results, batch_results) == results \o batch_results

\* an exception of save_checkpoint is swallowed and the loop goes on
AfterSaveIgnoringRaise(raised, more) == IF more THEN "item" ELSE "returned"

\* where the call goes after the save of a batch
AfterSave(raised, more) ==
  IF raised THEN "aborted" ELSE IF more THEN "item" ELSE "returned"

\* end of a batch: results extended, checkpoint saved; a raising save leaves
\* the call by the exception
SaveBatch ==
  /\ pc = "save"
  /\ LET r == SaveCheckpoint(lg, files, BatchInfo(run), now)
         more == run.i + batch_size < Len(run.samples_to_process)
     IN  /\ lg' = r.lg
         /\ files' = r.files
         /\ hist' = Saved(hist, r, BatchInfo(run))
         /\ run' = [run EXCEPT !.results = ExtendResults(@, run.batch_results),
                               !.save_raised = r.raised,
                               !.saved = IF r.raised THEN @ ELSE @ + 1,
                               !.i = IF ~r.raised /\ more THEN @ + batch_size ELSE @,
                               !.pos = IF ~r.raised /\ more THEN 0 ELSE @,
                               !.batch_results = IF ~r.raised /\ more THEN <<>> ELSE @]
         /\ pc' = AfterSave(r.raised, more)
  /\ UNCHANGED <<retry, log_dir, rng, selectors, selections, now, recovery_data, shared, batch_size, last>>

\* the call is left: the caller has the results, or the exception
Finish ==
  /\ pc \in {"returned", "aborted"}
  /\ pc' = "idle"
  /\ last' = [op |-> "process_samples_with_recovery",
              arg |-> [ty |-> "list", v |-> run.samples,
                       invoked |-> {run.invoked[k].id : k \in 1..Len(run.invoked)}],
              ret |-> IF pc = "aborted" THEN [ty |-> "raised"]
                      ELSE [ty |-> "list", v |-> run.results]]
  /\ run' = NoRun
  /\ UNCHANGED <<retry, log_dir, rng, selectors, selections, now, files, lg, recovery_data, shared, batch_size, hist>>

\* what is known of the call the process was in when it ended: its list, the
\* items passed to process_function, the batch in progress and the batch size
Interrupted(r) ==
  IF pc \in {"item", "save"}
  THEN [ty |-> "call", samples |-> r.samples,
        invoked |-> {r.invoked[k].id : k \in 1..Len(r.invoked)},
        batch |-> SeqToSet(Batch(r)), batch_size |-> batch_size]
  ELSE NoneVal

\* the process ends (interrupted at any point, or after its work) and a new
\* one is started over the same checkpoint directory
Restart ==
  /\ hist.boots < MaxBoots
  /\ lg' = NewLogger(now)
  /\ recovery_data' = NoneVal
  /\ shared' = FALSE
  /\ batch_size' \in 1..MaxBatch
  /\ pc' = "idle"
  /\ run' = NoRun
  /\ last' = NoCall
  /\ hist' = [hist EXCEPT !.boots = @ + 1, !.used = FALSE, !.loads = 0,
                          !.last_mark = [x \in Ids |-> "none"],
                          !.interrupted = Interrupted(run)]
  /\ UNCHANGED <<retry, log_dir, rng, selectors, selections, now, files>>

\* the files when the process ends inside save_checkpoint, between the open
\* of the checkpoint file and the end of pickle.dump: the file of that name
\* is created, or emptied, and holds no readable record
TornCheckpoint(fs, t) ==
  LET name == CheckpointFileName(t)
  IN  {f \in fs : f.name # name} \cup {[name |-> name, mtime |-> t, data |-> Corrupt]}

\* the process ends while the checkpoint of a batch is being written, and a
\* new one is started over the same checkpoint directory
RestartInSave ==
  /\ pc = "save"
  /\ ~SaveCheckpoint(lg, files, BatchInfo(run), now).raised
  /\ hist.boots < MaxBoots
  /\ files' = TornCheckpoint(files, now)
  /\ lg' = NewLogger(now)
  /\ recovery_data' = NoneVal
  /\ shared' = FALSE
  /\ batch_size' \in 1..MaxBatch
  /\ pc' = "idle"
  /\ run' = NoRun
  /\ last' = NoCall
  /\ hist' = [hist EXCEPT !.boots = @ + 1, !.used = FALSE, !.loads = 0,
                          !.last_mark = [x \in Ids |-> "none"],
                          !.interrupted = Interrupted(run)]
  /\ UNCHANGED <<retry, log_dir, rng, selectors, selections, now>>

\* the clients' calls on the logger
LoggerCalls ==
  \/ \E id \in Ids : CallMarkSampleProcessed(id)
  \/ \E id \in Ids : CallMarkSampleFailed(id)
  \/ \E error_type \in ErrorTypes : CallLogApiError("DeepL", error_type, NumIds, 0)
  \/ \E additional_data \in {NoneVal, EmptyDict, ExtraDict} : CallSaveCheckpoint(additional_data)
  \/ CallLoadLatestCheckpoint

\* the steps of process_samples_with_recovery
BatchSteps ==
  \/ \E samples \in PoolLists, args \in RunArgs : StartRun(samples, args[1], args[2])
  \/ ProcessItemOk
  \/ \E error_type \in ErrorTypes : ProcessItemRaises(error_type)
  \/ SaveBatch
  \/ Finish

NextCalls == Tick \/ LoggerCalls \/ Restart

NextBatch == Tick \/ BatchSteps \/ Restart

\* the clients' mark calls, on the logger the batch processor uses
MarkCalls ==
  \/ \E id \in Ids : CallMarkSampleProcessed(id)
  \/ \E id \in Ids : CallMarkSampleFailed(id)

NextMixed == MarkCalls \/ BatchSteps

\* sample lists in any order, repeats allowed
FilterInputs == UNION {[1..n -> Ids] : n \in 0..NumIds}

\* the ids an earlier process marked, in increasing order
MarkLists ==
  {<<>>} \cup {s \in SampleLists : \A i, j \in 1..Len(s) : i < j => s[i] < s[j]}

RECURSIVE MarkAll(_, _, _)
\* the logger after mark_sample_processed on each of ps, then mark_sample_failed
\* on each of fs
MarkAll(l, ps, fs) ==
  IF ps # <<>> THEN MarkAll(MarkSampleProcessed(l, Head(ps)), Tail(ps), fs)
  ELSE IF fs # <<>> THEN MarkAll(MarkSampleFailed(l, Head(fs)), <<>>, Tail(fs))
  ELSE l

\* a process started over a directory that is empty, or holds the checkpoint
\* an earlier process saved after some mark calls
InitFilter ==
  /\ now = 0
  /\ log_dir = {}
  /\ lg = NewLogger(0)
  /\ recovery_data = NoneVal
  /\ shared = FALSE
  /\ NoSelector
  /\ batch_size = 1
  /\ pc = "idle"
  /\ retry = NoRetry
  /\ run = NoRun
  /\ last = NoCall
  /\ \/ files = {} /\ hist = NewHist
     \/ \E ps \in MarkLists, fs \in MarkLists :
          LET r == SaveCheckpoint(MarkAll(NewLogger(0), ps, fs), {}, NoneVal, 0)
          IN  /\ files = r.files
              /\ hist = Saved(NewHist, r, NoneVal)

NextFilter ==
  \/ \E samples \in FilterInputs : last.op = "none" /\ CallFilterSamples(samples)
  \/ CallFilterAgain

\* the steps of process_samples_with_recovery when process_function may raise
\* an exception of a fatal kind
FatalSteps ==
  \/ \E samples \in PoolLists, args \in RunArgs : StartRun(samples, args[1], args[2])
  \/ ProcessItemOk
  \/ \E error_type \in FatalKinds : ProcessItemRaises(error_type)
  \/ SaveBatch
  \/ Finish

NextFatal == FatalSteps

\* one process that runs batches whose process_function raises fatal kinds
SpecFatal == Init /\ [][NextFatal]_vars

\* the stage names the clients use: the known ones and one that is not known
StageNames == {StageOrder[i] : i \in 1..Len(StageOrder)} \cup {"unknown_stage"}

\* the checkpoint an earlier process saved at tick 0 in stage `stage`, after
\* it had settled sample 1
StageCheckpoint(stage) ==
  SaveCheckpoint(MarkSampleProcessed(UpdateProcessingStage(NewLogger(0), stage, NoneVal), 1),
                 {}, NoneVal, 0)

\* a record of the next second that cannot be read
CorruptRecord ==
  [name |-> CheckpointFileName(TicksPerSecond), mtime |-> TicksPerSecond, data |-> Corrupt]

\* a process started over a directory that is empty, or holds a checkpoint of
\* some stage, or a newer record that cannot be read, or both
InitRecovery ==
  /\ log_dir = {}
  /\ lg = NewLogger(0)
  /\ recovery_data = NoneVal
  /\ shared = FALSE
  /\ NoSelector
  /\ batch_size = 1
  /\ pc = "idle"
  /\ retry = NoRetry
  /\ run = NoRun
  /\ last = NoCall
  /\ \/ now = 0 /\ files = {} /\ hist = NewHist
     \/ now = TicksPerSecond /\ files = {CorruptRecord} /\ hist = NewHist
     \/ \E stage \in StageNames :
          LET r == StageCheckpoint(stage)
          IN  /\ hist = Saved(NewHist, r, NoneVal)
              /\ \/ now = 0 /\ files = r.files
                 \/ now = TicksPerSecond /\ files = r.files \cup {CorruptRecord}

\* the clients' calls on the recovery manager and on its logger
NextRecovery ==
  \/ CallCanRecover
  \/ CallGetCurrentProcessingStage
  \/ \E target_stage \in StageNames : CallShouldResumeFromStage(target_stage)
  \/ \E samples \in PoolLists : CallFilterSamples(samples)
  \/ CallLoadLatestCheckpoint
  \/ \E stage \in {"loading", "unknown_stage"} : CallUpdateProcessingStage(stage, NoneVal)
  \/ CallSaveCheckpoint(NoneVal)
  \/ CallClearRecoveryData

\* the recovery manager's queries, between the clients' calls on its logger
NextQueries ==
  \/ CallCanRecover
  \/ CallGetRecoveryInfo
  \/ \E sample_id \in Ids : CallShouldSkipSample(sample_id)
  \/ \E samples \in PoolLists : CallFilterSamples(samples)
  \/ \E target_stage \in {"translating", "generating"} : CallShouldResumeFromStage(target_stage)
  \/ CallCreateRecoverySummary
  \/ CallMarkSampleProcessed(NumIds)
  \/ CallMarkSampleFailed(NumIds)
  \/ CallUpdateProcessingStage("generating", Str("medqa"))
  \/ \E error_type \in ErrorTypes : CallLogApiError("DeepL", error_type, NumIds, 0)

SpecQueries == InitRecovery /\ [][NextQueries]_vars

\* a process started over a directory that is empty, or holds the checkpoint
\* of an earlier process that had settled sample 1, or had failed sample 2
\* and logged its error, or both
InitTwice ==
  /\ now = 0
  /\ log_dir = {}
  /\ lg = NewLogger(0)
  /\ recovery_data = NoneVal
  /\ shared = FALSE
  /\ NoSelector
  /\ batch_size \in 1..MaxBatch
  /\ pc = "idle"
  /\ retry = NoRetry
  /\ run = NoRun
  /\ last = NoCall
  /\ \/ files = {} /\ hist = NewHist
     \/ \E settled \in BOOLEAN, failed \in BOOLEAN :
          LET l1 == IF settled THEN MarkSampleProcessed(NewLogger(0), 1) ELSE NewLogger(0)
              l2 == IF failed
                    THEN MarkSampleFailed(LogApiError(l1, "translating", "ValueError", 2, 0, 0), 2)
                    ELSE l1
              r == SaveCheckpoint(l2, {}, NoneVal, 0)
          IN  /\ settled \/ failed
              /\ files = r.files
              /\ hist = Saved(NewHist, r, NoneVal)

NextTwice == Tick \/ BatchSteps

NextInterrupt == Tick \/ BatchSteps \/ Restart \/ RestartInSave

\* processes that only run process_samples_with_recovery and may end at any
\* point of it, the write of a checkpoint included
SpecInterrupt == Init /\ [][NextInterrupt]_vars

\* one process that calls process_samples_with_recovery up to MaxRuns times
SpecTwice == InitTwice /\ [][NextTwice]_vars

\* every exception class name _determine_error_severity tells apart, and one
\* it does not know
ErrorKinds == FatalKinds \cup TransientKinds \cup {"ValueError"}

\* a client that reports faults of every kind after any number of retries
NextSeverity ==
  \E api_name \in {"DeepL", "OpenAI"}, error_type \in ErrorKinds, retry_count \in 0..MaxRetry :
    CallLogApiError(api_name, error_type, NumIds, retry_count)

SpecSeverity == Init /\ [][NextSeverity]_vars

\* collaborator names in several spellings, inside and outside the two families
ApiNames ==
  {"DeepL", "deepl", "Translation", "OpenAI", "GENERATION", "translating", "Anthropic"}

\* a client that reports faults of several collaborators
NextErrors ==
  \E api_name \in ApiNames, error_type \in {"ValueError", "APIError"}, retry_count \in {0, HighRetryCount} :
    CallLogApiError(api_name, error_type, NumIds, retry_count)

SpecErrors == Init /\ [][NextErrors]_vars

\* a client that asks for stats summaries and error reports over time
NextArtifacts ==
  \/ Tick
  \/ \E stats \in ClientStats : CallLogProcessingStats(stats)
  \/ CallGenerateErrorReport
  \/ \E error_type \in ErrorTypes : CallLogApiError("DeepL", error_type, NumIds, 0)

SpecArtifacts == Init /\ [][NextArtifacts]_vars

\* the dataset labels the clients pass: none, the empty one, and two names
Datasets == {NoneVal, Str(""), Str("medqa"), Str("pubmedqa")}

\* a client that moves between stages in any order, while samples are marked,
\* errors logged and checkpoints saved
NextStages ==
  \/ \E stage \in StageNames, dataset \in Datasets : CallUpdateProcessingStage(stage, dataset)
  \/ CallMarkSampleProcessed(1)
  \/ CallMarkSampleFailed(NumIds)
  \/ \E error_type \in ErrorTypes : CallLogApiError("DeepL", error_type, NumIds, 0)
  \/ CallSaveCheckpoint(NoneVal)

SpecStages == Init /\ [][NextStages]_vars

\* one process that queries its recovery manager
SpecRecovery == InitRecovery /\ [][NextRecovery]_vars

\* a process that filters a list and then the list it got back
SpecFilter == InitFilter /\ [][NextFilter]_vars

\* a process that only makes direct calls on its logger
SpecCalls == Init /\ [][NextCalls]_vars

\* a process that only runs process_samples_with_recovery
SpecBatch == Init /\ [][NextBatch]_vars

\* one process whose client marks samples itself and runs batches
SpecMixed == Init /\ [][NextMixed]_vars

\* ------------------------------------------------ SampleSelector
\* A sample is given by its id.  The random module's generator is shared by
\* the whole process; its state is one of RngStates, random.seed(a) puts it
\* in a state fixed by a, and every draw moves it on by one step.
RngStates == 0..NumIds

IntVal(v) == [ty |-> "int", v |-> v]

\* random.seed(a)
SeedState(a) == a % Cardinality(RngStates)

\* one draw of the generator
NextRandom(s) == (s + 1) % Cardinality(RngStates)

\* random.sample(population, k): k times, draw a position among the elements
\* still in the pool, take that element, and move the last one into its place
RECURSIVE SampleLoop(_, _, _, _)
SampleLoop(pool, k, s, result) ==
  IF k = 0
  THEN [result |-> result, rng |-> s]
  ELSE LET n == Len(pool)
           s1 == NextRandom(s)
           j == (s1 % n) + 1
           rest == [i \in 1..(n - 1) |-> IF i = j THEN pool[n] ELSE pool[i]]
       IN  SampleLoop(rest, k - 1, s1, Append(result, pool[j]))

RandomSample(population, k, s) == SampleLoop(population, k, s, <<>>)

\* the generator is left as it is
NoReseed(random_seed, s) == s

\* if self.random_seed is not None: random.seed(self.random_seed)
Reseed(random_seed, s) == IF IsNone(random_seed) THEN s ELSE SeedState(random_seed.v)

\* ValueError("Count must be positive")
CountError ==
  [ty |-> "ValueError", message |-> "Count must be positive",
   requested |-> NoneVal, available |-> NoneVal, excluded |-> NoneVal]

\* the ValueErrors whose message gives the counts
NotEnough(message, requested, available, excluded) ==
  [ty |-> "ValueError", message |-> message,
   requested |-> requested, available |-> available, excluded |-> excluded]

Raises(r) == r.ret.ty = "ValueError"

\* a count of zero or less selects nothing
TranslationOfNothing(random_seed, samples, count, s) ==
  IF count <= 0 THEN [ret |-> List(<<>>), rng |-> s]
  ELSE IF Len(samples) < count
  THEN [ret |-> NotEnough("Not enough samples available", count, Len(samples), NoneVal),
        rng |-> s]
  ELSE LET r == RandomSample(samples, count, Reseed(random_seed, s))
       IN  [ret |-> List(r.result), rng |-> r.rng]

SelectForTranslation(random_seed, samples, count, s) ==
  IF count <= 0 THEN [ret |-> CountError, rng |-> s]
  ELSE IF Len(samples) < count
  THEN [ret |-> NotEnough("Not enough samples available", count, Len(samples), NoneVal),
        rng |-> s]
  ELSE LET r == RandomSample(samples, count, Reseed(random_seed, s))
       IN  [ret |-> List(r.result), rng |-> r.rng]

\* every sample is excluded only when it is the first of the exclude list
ExcludeFirstOnly(exclude) ==
  IF IsNone(exclude) \/ exclude.v = <<>> THEN {} ELSE {exclude.v[1]}

\* excluded_ids: the ids of the exclude list, empty when it is None or empty
ExcludedIds(exclude) == IF IsNone(exclude) THEN {} ELSE SeqToSet(exclude.v)

SelectForGeneration(random_seed, samples, count, exclude, s) ==
  IF count <= 0 THEN [ret |-> CountError, rng |-> s]
  ELSE LET excluded_ids == ExcludedIds(exclude)
           available_samples == SelectSeq(samples, LAMBDA x : x \notin excluded_ids)
       IN  IF Len(available_samples) < count
           THEN [ret |-> NotEnough("Not enough samples available after exclusions", count,
                                   Len(available_samples), Cardinality(excluded_ids)),
                 rng |-> s]
           ELSE LET r == RandomSample(available_samples, count, Reseed(random_seed, s))
                IN  [ret |-> List(r.result), rng |-> r.rng]

\* the two selections, the second excluding the first
SelectBoth(random_seed, samples, translation_count, generation_count, s) ==
  LET t == SelectForTranslation(random_seed, samples, translation_count, s)
  IN  IF Raises(t) THEN t
      ELSE LET g == SelectForGeneration(random_seed, samples, generation_count, t.ret, t.rng)
           IN  IF Raises(g) THEN g
               ELSE [ret |-> [ty |-> "tuple", translation_samples |-> t.ret.v,
                              generation_samples |-> g.ret.v],
                     rng |-> g.rng]

\* the total is not compared with the pool
ByDatasetUnchecked(random_seed, samples, translation_count, generation_count, s) ==
  SelectBoth(random_seed, samples, translation_count, generation_count, s)

SelectSamplesByDataset(random_seed, samples, translation_count, generation_count, s) ==
  LET total_needed == translation_count + generation_count
  IN  IF Len(samples) < total_needed
      THEN [ret |-> NotEnough("Not enough samples for both operations", total_needed,
                              Len(samples), NoneVal),
            rng |-> s]
      ELSE SelectBoth(random_seed, samples, translation_count, generation_count, s)

\* the two lists are compared position by position
NoOverlapAtSamePosition(translation_samples, generation_samples) ==
  \A i \in 1..Len(translation_samples) :
    i > Len(generation_samples) \/ translation_samples[i] # generation_samples[i]

ValidateNoOverlap(translation_samples, generation_samples) ==
  SeqToSet(translation_samples) \cap SeqToSet(generation_samples) = {}

\* the counts and the overlap flag of get_selection_stats
GetSelectionStats(samples, translation_samples, generation_samples) ==
  [ty |-> "dict",
   total_samples |-> Len(samples),
   translation_samples |-> Len(translation_samples),
   generation_samples |-> Len(generation_samples),
   unused_samples |-> Len(samples) - Len(translation_samples) - Len(generation_samples),
   has_overlap |-> ~ValidateNoOverlap(translation_samples, generation_samples)]

\* SampleSelector(random_seed): the constructor seeds the shared generator
NewSampleSelector(random_seed) ==
  /\ pc = "idle"
  /\ Len(selectors) < MaxSelectors
  /\ selectors' = Append(selectors, random_seed)
  /\ rng' = Reseed(random_seed, rng)
  /\ UNCHANGED <<retry, log_dir, now, files, lg, recovery_data, shared, batch_size, selections, pc, run, last, hist>>

\* a call on a SampleSelector that returned or raised r.ret; `keep` says
\* whether the caller keeps what it got for later comparison, and only the
\* calls it keeps are counted
SelectorCall(op, arg, r, keep) ==
  /\ CanCall
  /\ rng' = r.rng
  /\ last' = [op |-> op, arg |-> arg, ret |-> r.ret]
  /\ selections' = IF keep THEN selections \cup {[op |-> op, arg |-> arg, ret |-> r.ret]}
                   ELSE selections
  /\ hist' = IF keep THEN [hist EXCEPT !.calls = @ + 1, !.used = TRUE] ELSE hist
  /\ UNCHANGED <<retry, log_dir, now, files, lg, recovery_data, shared, batch_size, selectors, pc, run>>

CallSelectForTranslation(self, samples, count, keep) ==
  SelectorCall("select_for_translation",
               [self |-> self, random_seed |-> selectors[self], samples |-> samples,
                count |-> count],
               SelectForTranslation(selectors[self], samples, count, rng), keep)

CallSelectForGeneration(self, samples, count, exclude, keep) ==
  SelectorCall("select_for_generation",
               [self |-> self, random_seed |-> selectors[self], samples |-> samples,
                count |-> count, exclude |-> exclude],
               SelectForGeneration(selectors[self], samples, count, exclude, rng), keep)

CallSelectSamplesByDataset(self, samples, translation_count, generation_count, keep) ==
  SelectorCall("select_samples_by_dataset",
               [self |-> self, random_seed |-> selectors[self], samples |-> samples,
                translation_count |-> translation_count,
                generation_count |-> generation_count],
               SelectSamplesByDataset(selectors[self], samples, translation_count,
                                      generation_count, rng), keep)

\* the two lists are read only: the caller's lists after the call are the
\* ones it passed
CallValidateNoOverlap(translation_samples, generation_samples) ==
  SelectorCall("validate_no_overlap",
               [translation_samples |-> translation_samples,
                generation_samples |-> generation_samples],
               [ret |-> [ty |-> "bool",
                         v |-> ValidateNoOverlap(translation_samples, generation_samples),
                         translation_samples |-> translation_samples,
                         generation_samples |-> generation_samples],
                rng |-> rng], FALSE)

CallGetSelectionStats(samples, translation_samples, generation_samples) ==
  SelectorCall("get_selection_stats",
               [samples |-> samples, translation_samples |-> translation_samples,
                generation_samples |-> generation_samples],
               [ret |-> GetSelectionStats(samples, translation_samples, generation_samples),
                rng |-> rng], FALSE)

\* a process that has made no selection; the generator was seeded by the
\* system when the random module was imported
InitSelect ==
  /\ now = 0
  /\ files = {}
  /\ log_dir = {}
  /\ lg = NewLogger(0)
  /\ recovery_data = NoneVal
  /\ shared = FALSE
  /\ batch_size = 1
  /\ rng \in RngStates
  /\ selectors = <<>>
  /\ selections = {}
  /\ pc = "idle"
  /\ retry = NoRetry
  /\ run = NoRun
  /\ last = NoCall
  /\ hist = NewHist

\* the pools and the requests of the callers: pools from empty to full,
\* counts from zero to more than the pool holds, exclude lists with ids in
\* and out of the pool
Pools == {<<>>} \cup PoolLists
Counts == 0..(NumIds + 1)
SingleCounts == Counts \cup {0 - 1}
Excludes == {NoneVal, List(<<NumIds>>), List(<<1, NumIds + 1>>)}

NextSelect ==
  \/ \E self \in 1..Len(selectors), samples \in Pools, count \in SingleCounts :
       CallSelectForTranslation(self, samples, count, FALSE)
  \/ \E self \in 1..Len(selectors), samples \in Pools, count \in SingleCounts, exclude \in Excludes :
       CallSelectForGeneration(self, samples, count, exclude, FALSE)
  \/ \E self \in 1..Len(selectors), samples \in Pools, tc \in Counts, gc \in Counts :
       CallSelectSamplesByDataset(self, samples, tc, gc, FALSE)

\* an unseeded and a seeded selector, whatever the generator was left at
InitTwoSelectors ==
  /\ now = 0
  /\ files = {}
  /\ log_dir = {}
  /\ lg = NewLogger(0)
  /\ recovery_data = NoneVal
  /\ shared = FALSE
  /\ batch_size = 1
  /\ rng \in RngStates
  /\ selectors = <<NoneVal, IntVal(1)>>
  /\ selections = {}
  /\ pc = "idle"
  /\ retry = NoRetry
  /\ run = NoRun
  /\ last = NoCall
  /\ hist = NewHist

\* selections of every size over every pool
SpecSelect == InitTwoSelectors /\ [][NextSelect]_vars

\* the full pool, and requests it can serve
FullPool == [i \in 1..NumIds |-> i]

NextSeeded ==
  \/ \E random_seed \in {NoneVal, IntVal(1)} : NewSampleSelector(random_seed)
  \/ \E self \in 1..Len(selectors), count \in 1..2 :
       CallSelectForTranslation(self, FullPool, count, TRUE)
  \/ \E self \in 1..Len(selectors), exclude \in {NoneVal, List(<<1>>)} :
       CallSelectForGeneration(self, FullPool, 2, exclude, TRUE)
  \/ \E self \in 1..Len(selectors), gc \in 1..2 :
       CallSelectSamplesByDataset(self, FullPool, 1, gc, TRUE)

\* several selectors, seeded or not, whose selections the caller compares
SpecSeeded == InitSelect /\ [][NextSeeded]_vars

\* one selector whose caller checks given subsets
InitOverlap ==
  /\ now = 0
  /\ files = {}
  /\ log_dir = {}
  /\ lg = NewLogger(0)
  /\ recovery_data = NoneVal
  /\ shared = FALSE
  /\ batch_size = 1
  /\ rng = 0
  /\ selectors = <<NoneVal>>
  /\ selections = {}
  /\ pc = "idle"
  /\ retry = NoRetry
  /\ run = NoRun
  /\ last = NoCall
  /\ hist = NewHist

\* the subsets of the pool, each in the pool's order
Subsets == MarkLists

NextOverlap ==
  \/ \E a \in Subsets, b \in Subsets : CallValidateNoOverlap(a, b)
  \/ \E a \in Subsets, b \in Subsets : CallGetSelectionStats(FullPool, a, b)

SpecOverlap == InitOverlap /\ [][NextOverlap]_vars

\* ------------------------------------------------ per-item retry loops

\* TranslationConfig.base_delay, GenerationConfig.base_delay (seconds)
BaseDelay == 1

\* TranslationConfig.max_delay, GenerationConfig.max_delay (seconds)
MaxDelay == 60

Processors == {"translation", "generation"}

\* --max-retries: click.IntRange(1, 10), handed to both processors' configs
MaxRetriesValues == 1..MaxRetry

\* what one pass through the try body can end in: the sample is returned, or
\* the collaborator (or the construction of the result) raises
Outcomes(processor) ==
  IF processor = "translation"
  THEN {"ok", "QuotaExceededException", "TooManyRequestsException",
        "AuthorizationException", "DeepLException", "Exception"}
  ELSE {"ok", "RateLimitError", "AuthenticationError", "BadRequestError",
        "APIError", "Exception"}

\* the except clauses: what the handler of an exception raises at once
\* (NoneVal when it does not raise)
RaisedAtOnce(processor, exc) ==
  CASE exc = "QuotaExceededException" -> [ty |-> "TranslationError", cause |-> exc]
    [] exc = "AuthorizationException" -> [ty |-> "TranslationError", cause |-> exc]
    [] exc = "AuthenticationError" -> [ty |-> "GenerationError", cause |-> exc]
    [] exc = "BadRequestError" -> [ty |-> "GenerationError", cause |-> exc]
    [] OTHER -> NoneVal

\* the except clauses: what the handler of an exception keeps in last_exception
LastException(processor, exc) ==
  CASE exc = "TooManyRequestsException" -> [ty |-> "RateLimitError", cause |-> exc]
    [] exc = "RateLimitError" -> [ty |-> "GenerationRateLimitError", cause |-> exc]
    [] processor = "translation" -> [ty |-> "TranslationError", cause |-> exc]
    [] OTHER -> [ty |-> "GenerationError", cause |-> exc]

WaitAfterEveryAttempt(attempt, max_retries) == TRUE

\* if attempt < self.config.max_retries - 1
WaitBeforeRetry(attempt, max_retries) == attempt < max_retries - 1

\* _calculate_backoff_delay
CalculateBackoffDelay(attempt) == Min(BaseDelay * (2 ^ attempt), MaxDelay)

\* the statements after the for loop
AfterLoop(processor, max_retries, last_exception) ==
  IF last_exception # NoneVal
  THEN last_exception
  ELSE [ty |-> IF processor = "translation" THEN "TranslationError" ELSE "GenerationError",
        cause |-> "attempts"]

\* _translate_single_sample / _generate_single_sample is entered
CallSingleSample(processor, max_retries) ==
  /\ pc = "idle"
  /\ retry.status # "loop"
  /\ hist.calls < MaxCalls
  /\ retry' = [NoRetry EXCEPT !.processor = processor, !.max_retries = max_retries,
                              !.status = "loop"]
  /\ hist' = [hist EXCEPT !.calls = @ + 1, !.used = TRUE]
  /\ last' = [op |-> "single_sample", arg |-> Str(processor), ret |-> NoneVal]
  /\ UNCHANGED <<log_dir, rng, selectors, selections, now, files, lg, recovery_data, shared,
                 batch_size, pc, run>>

\* one iteration of the for loop whose try body ends in the given outcome; the
\* iteration that exhausts range(max_retries) goes on to the statements after it
Attempt(outcome) ==
  /\ retry.status = "loop"
  /\ retry.attempt < retry.max_retries
  /\ outcome \in Outcomes(retry.processor)
  /\ LET outcomes == Append(retry.outcomes, outcome)
         at_once == RaisedAtOnce(retry.processor, outcome)
         kept == LastException(retry.processor, outcome)
         waits == IF WaitBeforeRetry(retry.attempt, retry.max_retries)
                  THEN Append(retry.waits, CalculateBackoffDelay(retry.attempt))
                  ELSE retry.waits
     IN  \/ /\ outcome = "ok"
            /\ retry' = [retry EXCEPT !.outcomes = outcomes, !.status = "returned",
                                      !.ret = IntVal(retry.attempt + 1)]
         \/ /\ outcome # "ok"
            /\ at_once # NoneVal
            /\ retry' = [retry EXCEPT !.outcomes = outcomes, !.status = "raised",
                                      !.ret = at_once]
         \/ /\ outcome # "ok"
            /\ at_once = NoneVal
            /\ retry.attempt + 1 < retry.max_retries
            /\ retry' = [retry EXCEPT !.outcomes = outcomes, !.waits = waits,
                                      !.last_exception = kept, !.attempt = @ + 1]
         \/ /\ outcome # "ok"
            /\ at_once = NoneVal
            /\ retry.attempt + 1 >= retry.max_retries
            /\ retry' = [retry EXCEPT !.outcomes = outcomes, !.waits = waits,
                                      !.last_exception = kept, !.attempt = @ + 1,
                                      !.status = "raised",
                                      !.ret = AfterLoop(retry.processor, retry.max_retries, kept)]
  /\ UNCHANGED <<log_dir, rng, selectors, selections, now, files, lg, recovery_data, shared,
                 batch_size, pc, run, last, hist>>

NextRetry ==
  \/ \E processor \in Processors, max_retries \in MaxRetriesValues :
       CallSingleSample(processor, max_retries)
  \/ \E outcome \in Outcomes("translation") \cup Outcomes("generation") : Attempt(outcome)

SpecRetry == Init /\ [][NextRetry]_vars


\* ================================================================ claims
Processed(l) == SeqToSet(l.state.processed_samples)
Failed(l) == SeqToSet(l.state.failed_samples)

\* C1: after any sequence of mark_sample_processed / mark_sample_failed calls
\* no id is in both processed_samples and failed_samples, and each id is in
\* exactly the set named by the most recent call made for it.
C1_MarksDisjointLastWins ==
  \A id \in Ids :
    /\ ~(id \in Processed(lg) /\ id \in Failed(lg))
    /\ hist.last_mark[id] = "processed" => (id \in Processed(lg) /\ id \notin Failed(lg))
    /\ hist.last_mark[id] = "failed" => (id \in Failed(lg) /\ id \notin Processed(lg))

\* C4: save_checkpoint followed by load_latest_checkpoint yields a state, stats
\* and error sequence equal field by field to the ones saved, each error
\* record's timestamp and severity included.
C4_SaveLoadRoundTrip ==
  (last.op = "load_latest_checkpoint" /\ ~IsNone(last.ret)) =>
    /\ lg.state = hist.last_saved_lg.state
    /\ lg.stats = hist.last_saved_lg.stats
    /\ lg.errors = hist.last_saved_lg.errors

\* C5: every save_checkpoint writes a new, uniquely named record and never
\* overwrites an earlier one: after k saves the directory holds k records and
\* every earlier record is still there unchanged.
C5_SaveNeverOverwrites ==
  /\ [](Cardinality(files) = hist.saves)
  /\ [][files \subseteq files']_vars

\* C6: load_latest_checkpoint returns the content written by the most recent
\* save when a record exists, and None when the directory holds no record.
C6_LoadReturnsLatest ==
  last.op = "load_latest_checkpoint" =>
    IF files = {} THEN IsNone(last.ret) ELSE last.ret = hist.last_saved

\* a load that had two records of different seconds to choose from
C6_Witness ==
  /\ last.op = "load_latest_checkpoint"
  /\ Cardinality(files) >= 2
  /\ last.ret = hist.last_saved
  /\ last.ret # OldestCheckpoint(files).data

\* ---------------------------------------------------------------- runs
InRun == pc \in {"item", "save", "returned", "aborted"}
Ended == pc \in {"returned", "aborted"}
InvokedIds == [k \in 1..Len(run.invoked) |-> run.invoked[k].id]
Raised(id) == \E k \in 1..Len(run.invoked) : run.invoked[k].id = id /\ ~run.invoked[k].ok
Returned(id) == \E k \in 1..Len(run.invoked) : run.invoked[k].id = id /\ run.invoked[k].ok
\* the error records appended since the run began that name the sample
ErrorsFor(id) ==
  {k \in (run.errors_before + 1)..Len(lg.errors) : lg.errors[k].sample_id = id}
Ceil(n, b) == (n + b - 1) \div b

\* C2: in the first run of a fresh process over the checkpoint directory,
\* process_function is never invoked on an item whose id is in the settled or
\* failed set of the checkpoint last persisted before that run.
C2_ResumeSkipsPersisted ==
  (InRun /\ run.fresh /\ ~IsNone(run.resume_point)) =>
    \A k \in 1..Len(run.invoked) :
      run.invoked[k].id \notin SeqToSet(run.resume_point.state.processed_samples)
                               \cup SeqToSet(run.resume_point.state.failed_samples)

\* a resumed run that skipped a settled and a failed item and processed another
C2_Witness ==
  /\ InRun /\ run.fresh /\ hist.boots > 1
  /\ ~IsNone(run.resume_point)
  /\ run.resume_point.state.processed_samples # <<>>
  /\ run.resume_point.state.failed_samples # <<>>
  /\ Len(run.samples_to_process) < Len(run.samples)
  /\ Len(run.invoked) > 0

\* C3: an exception raised by process_function never aborts the run: the item
\* is marked failed, exactly one error record is appended for it, and
\* process_function is invoked in list order, exactly once, on every later
\* item of the filtered list.
C3_FaultNeverAborts ==
  InRun =>
    /\ InvokedIds = SubSeq(run.samples_to_process, 1, Len(run.invoked))
    /\ \A id \in Ids : Raised(id) =>
         /\ id \in Failed(lg)
         /\ Cardinality(ErrorsFor(id)) = 1
         /\ Ended => InvokedIds = run.samples_to_process

\* C9: a run over a filtered list of n > 0 items with batch size b persists
\* exactly ceil(n/b) snapshots, one right after each batch and none elsewhere.
C9_SnapshotPerBatch ==
  (InRun /\ Len(run.samples_to_process) > 0) =>
    /\ pc \in {"item", "save"} => run.saved = run.i \div batch_size
    /\ Ended => run.saved = Ceil(Len(run.samples_to_process), batch_size)

\* C10: when process_samples_with_recovery returns, every item whose call
\* returned normally is in the settled set and not in the failed set, and
\* every item whose call raised is in the failed set and not in the settled set.
C10_OutcomeSets ==
  pc = "returned" =>
    \A id \in Ids :
      /\ Returned(id) => (id \in Processed(lg) /\ id \notin Failed(lg))
      /\ Raised(id) => (id \in Failed(lg) /\ id \notin Processed(lg))

\* -------------------------------------------------------------- filter
\* the positions of the samples a filter with skip set `skip` keeps
KeptIdx(samples, skip) == {i \in 1..Len(samples) : samples[i] \notin skip}

\* out is samples without the samples whose id is in skip, order kept
IsFiltered(out, samples, skip) ==
  /\ Len(out) = Cardinality(KeptIdx(samples, skip))
  /\ \A k \in 1..Len(out) :
       \E i \in KeptIdx(samples, skip) :
         /\ Cardinality({j \in KeptIdx(samples, skip) : j < i}) = k - 1
         /\ out[k] = samples[i]

RecoveredSkip ==
  SeqToSet(recovery_data.state.processed_samples)
    \cup SeqToSet(recovery_data.state.failed_samples)

\* C7: filter_samples_for_processing returns exactly the input items whose id
\* is in neither the settled nor the failed set of the recovered snapshot, in
\* their original order; with no recovery data it returns the input unchanged.
C7_FilterKeepsUnsettled ==
  last.op = "filter_samples_for_processing" =>
    IF files = {}
    THEN IsNone(recovery_data) /\ last.ret.v = last.arg.v
    ELSE /\ recovery_data = hist.last_saved
         /\ IsFiltered(last.ret.v, last.arg.v, RecoveredSkip)

\* settled 1, failed 3: the pool <<1, 2, 3>> is filtered to <<2>>
C7_Witness ==
  /\ last.op = "filter_samples_for_processing"
  /\ ~IsNone(recovery_data)
  /\ recovery_data.state.processed_samples = <<1>>
  /\ recovery_data.state.failed_samples = <<NumIds>>
  /\ last.arg.v = [i \in 1..NumIds |-> i]
  /\ last.ret.v = [i \in 1..(NumIds - 2) |-> i + 1]

\* C8: filter_samples_for_processing is idempotent: filtering a list it
\* returned, with the same recovery data, returns that list unchanged.
C8_FilterIdempotent ==
  (last.op = "filter_samples_for_processing" /\ last.arg.from_filter) =>
    last.ret.v = last.arg.v

\* a second filtering of a list the first filtering had shortened
C8_Witness ==
  /\ last.op = "filter_samples_for_processing"
  /\ last.arg.from_filter
  /\ Len(last.arg.v) < Len(last.arg.prev)
  /\ Len(last.arg.v) > 0
  /\ last.ret.v = last.arg.v

\* ------------------------------------------------------ run results
\* C11: process_samples_with_recovery returns exactly the results of the items
\* whose process_function call succeeded in this run, one per item, in the
\* order of those items in the input list; results of failed items and of
\* filtered-out items are absent.
C11_ReturnsSuccessfulInOrder ==
  pc = "returned" => run.results = SelectSeq(run.samples, Returned)

\* a returned run with two results around an item that raised
C11_Witness ==
  /\ pc = "returned"
  /\ Len(run.results) >= 2
  /\ \E id \in Ids : Raised(id) /\ run.results[1] < id /\ id < run.results[2]

\* C12: when the filter leaves no item, process_samples_with_recovery returns
\* an empty result at once: process_function is never invoked and the call
\* persists no snapshot.
C12_EmptyFilterReturnsAtOnce ==
  [][/\ (pc = "idle" /\ pc' # "idle" /\ run'.samples_to_process = <<>>) =>
          /\ pc' = "returned"
          /\ run'.invoked = <<>> /\ run'.results = <<>> /\ run'.saved = 0
          /\ files' = files
     /\ (pc = "returned" /\ run.samples_to_process = <<>>) =>
          /\ files' = files
          /\ (pc' = "idle" /\ hist'.boots = hist.boots) => last'.ret = List(<<>>)
    ]_vars

\* a call on a non-empty list whose samples were all filtered out has returned
C12_Witness ==
  /\ pc = "idle"
  /\ last.op = "process_samples_with_recovery"
  /\ last.ret = List(<<>>)
  /\ ~IsNone(recovery_data)
  /\ Len(recovery_data.state.processed_samples) > 0
  /\ files # {} /\ hist.runs = MaxRuns

\* C13: when save_checkpoint raises during process_samples_with_recovery the
\* exception propagates to the caller and the run terminates: no item of a
\* later batch is passed to process_function and no later snapshot is written.
C13_SaveFailurePropagates ==
  /\ [](run.save_raised => pc = "aborted")
  /\ [][pc = "aborted" =>
          /\ files' = files
          /\ pc' \in {"aborted", "idle"}
          /\ pc' = "aborted" => run' = run
          /\ (pc' = "idle" /\ hist'.boots = hist.boots) => last'.ret = [ty |-> "raised"]
       ]_vars

\* a save raised while a later batch was still to be processed
C13_Witness ==
  /\ pc = "aborted"
  /\ run.save_raised
  /\ Len(run.invoked) < Len(run.samples_to_process)

\* C14: when process_function raises a fault of a fatal kind
\* (AuthenticationError, PermissionError, ConfigurationError) the fault
\* propagates to the caller and stops the run: no later item is passed to
\* process_function and the call does not return normally.
C14_FatalFaultStopsRun ==
  InRun =>
    \A k \in 1..Len(run.invoked) :
      run.invoked[k].error_type \in FatalKinds =>
        /\ k = Len(run.invoked)
        /\ pc # "returned"

\* C15: after process_samples_with_recovery(items, fn, stage_name, dataset_name)
\* with a non-empty dataset_name the logger's stage is stage_name and its
\* dataset is dataset_name, and every snapshot the run persisted records stage
\* stage_name, with or without an existing checkpoint.
C15_StageAndDatasetAfterRun ==
  (InRun /\ ~IsNone(run.dataset_name)) =>
    /\ run.saved > 0 => hist.last_saved.state.processing_stage = run.stage_name
    /\ pc = "returned" =>
         /\ lg.state.processing_stage = run.stage_name
         /\ lg.state.current_dataset = run.dataset_name

\* ---------------------------------------------------- recovery queries
\* the position of a stage in the order not_started, loading, selecting,
\* translating, generating, consolidating, exporting, completed (0 if absent)
StageRank(stage) ==
  CASE stage = "not_started" -> 1
    [] stage = "loading" -> 2
    [] stage = "selecting" -> 3
    [] stage = "translating" -> 4
    [] stage = "generating" -> 5
    [] stage = "consolidating" -> 6
    [] stage = "exporting" -> 7
    [] stage = "completed" -> 8
    [] OTHER -> 0

\* the stage of the recovery data the manager holds
RecoveredStage == recovery_data.state.processing_stage

\* C16: with recovery data whose stage is a known stage,
\* should_resume_from_stage(target) on a known target is true if and only if
\* the target's position in the stage order is at or after the recovered
\* stage's position.
C16_ResumeIffNotBefore ==
  (/\ last.op = "should_resume_from_stage"
   /\ ~IsNone(recovery_data)
   /\ StageRank(RecoveredStage) > 0
   /\ StageRank(last.arg.v) > 0) =>
    last.ret = Bool(StageRank(last.arg.v) >= StageRank(RecoveredStage))

\* recovered stage translating: should_resume_from_stage("loading") is false
C16_Witness ==
  /\ last.op = "should_resume_from_stage"
  /\ ~IsNone(recovery_data)
  /\ RecoveredStage = "translating"
  /\ last.arg.v = "loading"
  /\ last.ret = Bool(FALSE)

\* C17: with recovery data whose stage is not a known stage,
\* should_resume_from_stage returns true for every target stage.
C17_UnknownStageResumes ==
  (/\ last.op = "should_resume_from_stage"
   /\ ~IsNone(recovery_data)
   /\ StageRank(RecoveredStage) = 0) =>
    last.ret = Bool(TRUE)

\* recovered stage unknown: the first stage of the order is resumed
C17_Witness ==
  /\ last.op = "should_resume_from_stage"
  /\ ~IsNone(recovery_data)
  /\ RecoveredStage = "unknown_stage"
  /\ last.arg.v = "not_started"
  /\ last.ret = Bool(TRUE)

\* C18: with no checkpoint record, should_resume_from_stage returns false for
\* every target stage and get_current_processing_stage returns not_started.
C18_NoRecoveryData ==
  files = {} =>
    /\ last.op = "should_resume_from_stage" => last.ret = Bool(FALSE)
    /\ last.op = "get_current_processing_stage" => last.ret = Str("not_started")

\* the last stage asked of a manager over an empty directory
C18_Witness ==
  /\ files = {}
  /\ last.op = "should_resume_from_stage"
  /\ last.arg.v = "completed"
  /\ last.ret = Bool(FALSE)

\* C19: over the life of one StateRecoveryManager load_latest_checkpoint is
\* invoked at most once, whatever operations are called on it, also when the
\* load found no snapshot.
C19_LoadsAtMostOnce == hist.loads <= 1

\* the record of greatest modification time cannot be read
LatestIsCorrupt ==
  \E f \in files : f.data = Corrupt /\ \A g \in files : g.mtime <= f.mtime

\* C20: when the most recently modified record cannot be deserialized,
\* load_latest_checkpoint returns None without raising, can_recover is false
\* and filter_samples_for_processing returns its input unchanged, even if
\* older valid records exist.
C20_CorruptLatestIsColdStart ==
  LatestIsCorrupt =>
    /\ last.op = "load_latest_checkpoint" => IsNone(last.ret)
    /\ last.op = "can_recover" => last.ret = Bool(FALSE)
    /\ last.op = "filter_samples_for_processing" => last.ret.v = last.arg.v
    /\ last.op \in {"load_latest_checkpoint", "can_recover",
                    "filter_samples_for_processing"} =>
         /\ IsNone(recovery_data)
         /\ lg.state.processed_samples = <<>>

\* a list holding a sample an older valid record marks settled came back whole
C20_Witness ==
  /\ LatestIsCorrupt
  /\ Cardinality(files) = 2
  /\ last.op = "filter_samples_for_processing"
  /\ Len(last.arg.v) >= 2
  /\ last.ret.v = last.arg.v

\* C21: clear_recovery_data sets the cached recovery data to None and leaves
\* the checkpoint records unchanged in number and content.
C21_ClearKeepsRecords ==
  [][(last'.op = "clear_recovery_data" /\ hist'.calls = hist.calls + 1) =>
       /\ IsNone(recovery_data')
       /\ files' = files
    ]_vars

\* cached recovery data was cleared while its record stayed on disk
C21_Witness ==
  /\ last.op = "clear_recovery_data"
  /\ last.arg = Bool(TRUE)
  /\ IsNone(recovery_data)
  /\ files # {}

\* C22: mark_sample_processed on an id that is in failed_samples moves it: the
\* id is then in processed_samples and not in failed_samples, and the
\* membership of every other id in both lists is unchanged.
C22_MarkProcessedMovesFailed ==
  [][(/\ last'.op = "mark_sample_processed"
      /\ hist'.calls = hist.calls + 1
      /\ last'.arg.v \in Failed(lg)) =>
       /\ last'.arg.v \in Processed(lg')
       /\ last'.arg.v \notin Failed(lg')
       /\ \A other \in Ids \ {last'.arg.v} :
            /\ (other \in Processed(lg')) = (other \in Processed(lg))
            /\ (other \in Failed(lg')) = (other \in Failed(lg))
    ]_vars

\* a failed id was marked processed while another id stayed failed
C22_Witness ==
  /\ last.op = "mark_sample_processed"
  /\ hist.last_mark[1] = "processed"
  /\ last.arg.v = 1
  /\ lg.state.processed_samples = <<1>>
  /\ lg.state.failed_samples = <<2>>

\* the severity the rules give, one rule per line, first match wins
ClaimedSeverity(kind, retry_count) ==
  CASE kind \in {"AuthenticationError", "PermissionError", "ConfigurationError"} -> "critical"
    [] kind \notin {"AuthenticationError", "PermissionError", "ConfigurationError"}
         /\ retry_count >= 3 -> "high"
    [] kind \in {"APIError", "HTTPError", "RequestException"} /\ retry_count < 3 -> "medium"
    [] OTHER -> "low"

\* C23: _determine_error_severity applies its rules in order for every fault
\* kind and retry count: a fatal kind gives critical whatever the retry count,
\* otherwise retry_count >= 3 gives high, otherwise a transient-API kind gives
\* medium, otherwise low; the result depends only on the two inputs.
C23_SeverityRulesInOrder ==
  /\ \A i \in 1..Len(lg.errors) :
       lg.errors[i].severity =
         Severity(ClaimedSeverity(lg.errors[i].error_type, lg.errors[i].retry_count))
  /\ \A i, j \in 1..Len(lg.errors) :
       (/\ lg.errors[i].error_type = lg.errors[j].error_type
        /\ lg.errors[i].retry_count = lg.errors[j].retry_count)
         => lg.errors[i].severity = lg.errors[j].severity

\* a fatal kind after three retries is critical, an unknown kind after three
\* retries is high
C23_Witness ==
  /\ Len(lg.errors) = 2
  /\ lg.errors[1].error_type = "AuthenticationError"
  /\ lg.errors[1].retry_count = HighRetryCount
  /\ lg.errors[1].severity = Severity("critical")
  /\ lg.errors[2].error_type = "ValueError"
  /\ lg.errors[2].retry_count = HighRetryCount
  /\ lg.errors[2].severity = Severity("high")

\* collaborator names that match a family when case is ignored
TranslationFamily == {"DeepL", "deepl", "Translation"}
GenerationFamily == {"OpenAI", "GENERATION"}

\* C24: log_api_error appends exactly one error record, whose severity is
\* the one _determine_error_severity gives, at the end of the error sequence,
\* and increments failed_translations by one iff the collaborator name is of
\* the translation family, failed_generations by one iff it is of the
\* generation family, neither otherwise; all other counters are unchanged.
C24_LogApiErrorEffect ==
  [][(last'.op = "log_api_error" /\ hist'.calls = hist.calls + 1) =>
       LET n == Len(lg.errors)
           api_name == last'.arg.v
       IN  /\ Len(lg'.errors) = n + 1
           /\ SubSeq(lg'.errors, 1, n) = lg.errors
           /\ lg'.errors[n + 1].api_name = api_name
           /\ lg'.errors[n + 1].severity =
                DetermineErrorSeverity(lg'.errors[n + 1].error_type, lg'.errors[n + 1].retry_count)
           /\ lg'.stats.failed_translations =
                lg.stats.failed_translations + (IF api_name \in TranslationFamily THEN 1 ELSE 0)
           /\ lg'.stats.failed_generations =
                lg.stats.failed_generations + (IF api_name \in GenerationFamily THEN 1 ELSE 0)
           /\ [lg'.stats EXCEPT !.failed_translations = 0, !.failed_generations = 0] =
                [lg.stats EXCEPT !.failed_translations = 0, !.failed_generations = 0]
    ]_vars

\* a translation fault spelled "DeepL", then a generation fault spelled
\* "GENERATION": one of each counted
C24_Witness ==
  /\ last.op = "log_api_error"
  /\ Len(lg.errors) = 2
  /\ lg.errors[1].api_name = "DeepL"
  /\ lg.errors[2].api_name = "GENERATION"
  /\ lg.stats.failed_translations = 1
  /\ lg.stats.failed_generations = 1

\* the counters of ProcessingStats
Counters(st) ==
  <<st.total_samples, st.successful_translations, st.failed_translations,
    st.successful_generations, st.failed_generations, st.api_calls_made>>

\* C25: every stats counter is monotonic non-decreasing across any sequence
\* of operations of one process (log_api_error, marks, save_checkpoint,
\* load_latest_checkpoint); no operation of the model is log_processing_stats.
C25_CountersNeverDecrease ==
  [][hist'.boots = hist.boots =>
       \A k \in 1..Len(Counters(lg.stats)) : Counters(lg'.stats)[k] >= Counters(lg.stats)[k]
    ]_vars

\* s is a prefix of t
IsPrefix(s, t) == Len(s) <= Len(t) /\ SubSeq(t, 1, Len(s)) = s

\* C26: the error sequence of one process is append-only: across every
\* operation the sequence before it is a prefix of the sequence after it.
C26_ErrorsAppendOnly ==
  [][hist'.boots = hist.boots => IsPrefix(lg.errors, lg'.errors)]_vars

\* -------------------------------------------------------- sample selection
\* two subsets of the pool of the requested sizes, sharing no id
ServedBoth(arg, ret) ==
  /\ ret.ty = "tuple"
  /\ LET t == SeqToSet(ret.translation_samples)
         g == SeqToSet(ret.generation_samples)
     IN  /\ Len(ret.translation_samples) = arg.translation_count
         /\ Len(ret.generation_samples) = arg.generation_count
         /\ t \subseteq SeqToSet(arg.samples)
         /\ g \subseteq SeqToSet(arg.samples)
         /\ t \cap g = {}
         /\ Cardinality(t \cup g) = arg.translation_count + arg.generation_count

\* the request of the last select_samples_by_dataset call fits the pool
FitsPool ==
  /\ last.op = "select_samples_by_dataset"
  /\ last.arg.translation_count + last.arg.generation_count <= Len(last.arg.samples)

FailsStating(ret, requested, available) ==
  /\ ret.ty = "ValueError"
  /\ ret.message # CountError.message
  /\ ret.requested = requested
  /\ ret.available = available

\* the samples of the pool whose id is not in the exclude list
Unexcluded(samples, exclude) ==
  {x \in SeqToSet(samples) : IsNone(exclude) \/ ~InSeq(x, exclude.v)}

\* C28: selection fails with an error stating requested versus available
\* counts, and returns no subset, whenever the sum of the requested sizes
\* exceeds the pool size, or select_for_translation is asked for more than
\* the pool holds, or select_for_generation for more than the pool holds
\* outside the excluded ids.
C28_InsufficientItemsError ==
  /\ (/\ last.op = "select_samples_by_dataset"
      /\ last.arg.translation_count + last.arg.generation_count > Len(last.arg.samples))
       => FailsStating(last.ret, last.arg.translation_count + last.arg.generation_count,
                       Len(last.arg.samples))
  /\ (last.op = "select_for_translation" /\ last.arg.count > Len(last.arg.samples))
       => FailsStating(last.ret, last.arg.count, Len(last.arg.samples))
  /\ (/\ last.op = "select_for_generation"
      /\ last.arg.count > Cardinality(Unexcluded(last.arg.samples, last.arg.exclude)))
       => FailsStating(last.ret, last.arg.count,
                       Cardinality(Unexcluded(last.arg.samples, last.arg.exclude)))

\* the whole pool was requested while one of its samples was excluded
C28_Witness ==
  /\ last.op = "select_for_generation"
  /\ last.arg.samples = FullPool
  /\ last.arg.exclude = List(<<NumIds>>)
  /\ last.arg.count = NumIds
  /\ FailsStating(last.ret, NumIds, NumIds - 1)
  /\ last.ret.excluded = 1

\* the same call with the same arguments on selectors of the same seed
SameRequest(x, y) ==
  /\ x.op = y.op
  /\ [x.arg EXCEPT !.self = 0] = [y.arg EXCEPT !.self = 0]

\* C29: given the same seed, two SampleSelector instances run over the same
\* pool with the same request return the same subsets in the same order,
\* whatever other selections were made in between.
C29_SameSeedSameSelection ==
  \A x \in selections : \A y \in selections :
    (SameRequest(x, y) /\ ~IsNone(x.arg.random_seed)) => x.ret = y.ret

\* two selectors of seed 1 split the pool alike, the first one having made
\* another selection before the second one was asked
C29_Witness ==
  /\ last.op = "select_samples_by_dataset"
  /\ last.arg.self = 2
  /\ last.ret.ty = "tuple"
  /\ selectors = <<IntVal(1), IntVal(1)>>
  /\ \E x \in selections :
       /\ x.arg.self = 1
       /\ SameRequest(x, last)
       /\ x.ret = last.ret
  /\ \E z \in selections : z.op = "select_for_translation" /\ z.arg.self = 1
  /\ Cardinality(selections) = 3

\* C30: validate_no_overlap returns true if and only if no id occurs in both
\* subsets, it changes neither subset, and get_selection_stats reports
\* has_overlap as its negation.
C30_OverlapIffSharedId ==
  /\ last.op = "validate_no_overlap" =>
       /\ last.ret.v =
            (~\E id \in Ids : /\ InSeq(id, last.arg.translation_samples)
                              /\ InSeq(id, last.arg.generation_samples))
       /\ last.ret.translation_samples = last.arg.translation_samples
       /\ last.ret.generation_samples = last.arg.generation_samples
  /\ last.op = "get_selection_stats" =>
       last.ret.has_overlap =
         (\E id \in Ids : /\ InSeq(id, last.arg.translation_samples)
                          /\ InSeq(id, last.arg.generation_samples))

\* subsets sharing one id at different positions were found to overlap
C30_Witness ==
  /\ last.op = "validate_no_overlap"
  /\ last.arg.translation_samples = <<2>>
  /\ last.arg.generation_samples = <<1, 2>>
  /\ last.ret.v = FALSE

\* ------------------------------------------------------ whole batches
\* the ids in the settled or the failed list of a saved state
SettledOrFailed(state) ==
  SeqToSet(state.processed_samples) \cup SeqToSet(state.failed_samples)

\* C31: every snapshot persisted by process_samples_with_recovery reflects
\* only whole batches: when the k-th snapshot of a run is written, every item
\* of batches 1..k of the filtered list is in its settled or failed list, and
\* no item of a later batch is in either list because of this run.
C31_SnapshotsHoldWholeBatches ==
  [][(pc = "save" /\ hist'.saves = hist.saves + 1) =>
       LET snapshot == hist'.last_saved.state
           n == Len(run.samples_to_process)
           done == Min(run'.saved * batch_size, n)
       IN  /\ hist'.last_saved.additional_data.batch_number = run'.saved
           /\ \A j \in 1..done : run.samples_to_process[j] \in SettledOrFailed(snapshot)
           /\ \A j \in (done + 1)..n :
                run.samples_to_process[j] \in SettledOrFailed(snapshot)
                  => run.samples_to_process[j] \in run.settled_before
           /\ Len(run.invoked) = done
    ]_vars

\* the first snapshot of a run of three items in batches of two holds one
\* settled and one failed item, and the third item is still to come
C31_Witness ==
  /\ pc = "item"
  /\ batch_size = 2
  /\ run.saved = 1
  /\ Len(run.samples_to_process) = 3
  /\ Len(hist.last_saved.state.processed_samples) = 1
  /\ Len(hist.last_saved.state.failed_samples) = 1
  /\ hist.last_saved.additional_data.batch_number = 1

\* ------------------------------------------------------------ artifacts
Artifacts(kind) == {f \in log_dir : f.kind = kind}

\* C32: each request for a stats summary or an error report writes one new
\* artifact and never overwrites an earlier one: after k requests of one kind
\* there are k artifacts of that kind, whatever the time between requests.
C32_OneArtifactPerRequest ==
  /\ Cardinality(Artifacts("stats")) = hist.stats_requests
  /\ Cardinality(Artifacts("error_report")) = hist.report_requests

\* --------------------------------------------------------------- stages
\* C33: update_processing_stage accepts any stage from any current stage
\* without validating order, sets the current stage to the given one, sets
\* the dataset label only when one is supplied and otherwise leaves it
\* unchanged, and never changes the settled list, the failed list, the error
\* sequence or the checkpoint records.
C33_StageSetWithoutValidation ==
  [][(last'.op = "update_processing_stage" /\ hist'.calls = hist.calls + 1) =>
       LET dataset == last'.arg.dataset
           supplied == ~IsNone(dataset) /\ dataset # Str("")
       IN  /\ lg'.state.processing_stage = last'.arg.v
           /\ lg'.state.current_dataset =
                (IF supplied THEN dataset ELSE lg.state.current_dataset)
           /\ lg'.state.processed_samples = lg.state.processed_samples
           /\ lg'.state.failed_samples = lg.state.failed_samples
           /\ lg'.errors = lg.errors
           /\ lg'.stats = lg.stats
           /\ files' = files
    ]_vars

\* after a checkpoint saved in stage completed for dataset medqa, a move back
\* to loading without a dataset was accepted and kept the dataset
C33_Witness ==
  /\ last.op = "update_processing_stage"
  /\ IsNone(last.arg.dataset)
  /\ files # {}
  /\ hist.last_saved.state.processing_stage = "completed"
  /\ lg.state.processing_stage = "loading"
  /\ lg.state.current_dataset = Str("medqa")

\* C34: select_for_translation and select_for_generation raise ValueError
\* for every requested count <= 0, whatever the pool, and return no subset;
\* so select_samples_by_dataset raises when either requested size is 0, even
\* when the sum of the sizes does not exceed the pool size.
C34_NonPositiveCountRefused ==
  /\ (/\ last.op \in {"select_for_translation", "select_for_generation"}
      /\ last.arg.count <= 0) => last.ret = CountError
  /\ (/\ last.op = "select_samples_by_dataset"
      /\ (last.arg.translation_count = 0 \/ last.arg.generation_count = 0))
       => /\ last.ret.ty = "ValueError"
          /\ FitsPool => last.ret = CountError

\* the full pool was asked for no translation sample and one generation sample
C34_Witness ==
  /\ FitsPool
  /\ last.arg.samples = FullPool
  /\ last.arg.translation_count = 0
  /\ last.arg.generation_count = 1
  /\ last.ret = CountError

\* ---------------------------------------------------------- retry loops

\* C35: the per-item retry loop calls the collaborator at most max_retries
\* times for one item.  When every attempt fails with a retryable error it
\* makes exactly max_retries calls and max_retries - 1 backoff waits (none
\* after the last attempt) and then raises the error kept from the last
\* attempt; a quota, authorization, authentication or bad request error is
\* raised after that attempt with no further call and no wait; a success at
\* attempt k returns (with attempt number k) with no further call.
C35_RetryLoopBounded ==
  LET n == Len(retry.outcomes)
      fatal == {"QuotaExceededException", "AuthorizationException",
                "AuthenticationError", "BadRequestError"}
      final == fatal \cup {"ok"}
  IN  /\ n <= retry.max_retries
      /\ \A k \in 1..n : retry.outcomes[k] \in final => k = n
      /\ retry.status = "loop" => /\ n < retry.max_retries
                                  /\ Len(retry.waits) = n
      /\ (retry.status = "raised" /\ retry.outcomes[n] \notin fatal) =>
           /\ n = retry.max_retries
           /\ Len(retry.waits) = retry.max_retries - 1
           /\ retry.ret = retry.last_exception
           /\ retry.ret.cause = retry.outcomes[n]
      /\ (retry.status = "raised" /\ retry.outcomes[n] \in fatal) =>
           /\ Len(retry.waits) = n - 1
           /\ retry.ret.cause = retry.outcomes[n]
      /\ retry.status = "returned" =>
           /\ retry.outcomes[n] = "ok"
           /\ retry.ret = IntVal(n)
           /\ Len(retry.waits) = n - 1

\* every attempt of a call with several attempts failed with a retryable error
C35_Witness ==
  /\ retry.status = "raised"
  /\ retry.max_retries = MaxRetry
  /\ Len(retry.outcomes) = MaxRetry
  /\ retry.outcomes[MaxRetry] \in {"TooManyRequestsException", "APIError"}
  /\ Len(retry.waits) = MaxRetry - 1

\* ---------------------------------------------------------- resumed runs

\* C36: a run that is the first call of a restarted process and whose filter
\* loaded a snapshot with a non-empty error sequence saves the checkpoint of
\* its first batch without save_checkpoint raising, so the call is not left
\* by that exception and the remaining batches are processed.
C36_ResumedRunSavesFirstBatch ==
  (hist.boots > 1 /\ run.fresh /\ run.errors_before > 0) =>
    /\ ~run.save_raised
    /\ pc # "aborted"

\* -------------------------------------------------------- pure queries

\* C37: can_recover, get_recovery_info, should_skip_sample,
\* filter_samples_for_processing, should_resume_from_stage and
\* create_recovery_summary leave the logger's settled list, failed list,
\* stage, dataset, error sequence and stats as they were before the call,
\* with or without a checkpoint in the directory.
C37_QueriesLeaveLoggerAlone ==
  [][(hist'.calls = hist.calls + 1 /\
      last'.op \in {"can_recover", "get_recovery_info", "should_skip_sample",
                    "filter_samples_for_processing", "should_resume_from_stage",
                    "create_recovery_summary"}) =>
       /\ lg'.state.processed_samples = lg.state.processed_samples
       /\ lg'.state.failed_samples = lg.state.failed_samples
       /\ lg'.state.processing_stage = lg.state.processing_stage
       /\ lg'.state.current_dataset = lg.state.current_dataset
       /\ lg'.errors = lg.errors
       /\ lg'.stats = lg.stats]_vars

\* ---------------------------------------------------------- second calls

\* C38: when a process calls process_samples_with_recovery a second time with
\* the list of its first call, the second call passes to process_function no
\* item the first call passed to it (each of which the first call marked
\* settled or failed), whether the directory was empty or held a checkpoint
\* when the process started.
C38_SecondCallInvokesNoMarkedItem ==
  (hist.runs = 2 /\ ~IsNone(run.previous) /\ run.previous.v = run.samples) =>
    \A k \in 1..Len(run.invoked) : run.invoked[k].id \notin run.previous.invoked

\* a second call over the same list went on where the first one was left
C38_Witness ==
  /\ hist.runs = 2 /\ ~IsNone(run.previous) /\ run.previous.v = run.samples
  /\ run.previous.invoked # {}
  /\ run.invoked # <<>>

\* ------------------------------------------------------------ accounting

\* C39: when the first run of a process over an empty directory has returned,
\* the logger holds one error record per item the run marked failed, and
\* failed_translations (stage translating) or failed_generations (stage
\* generating) has grown from 0 to that number.
C39_FailuresCounted ==
  (pc = "returned" /\ hist.boots = 1 /\ hist.runs = 1) =>
    LET failed == Cardinality({k \in 1..Len(run.invoked) : ~run.invoked[k].ok})
    IN  /\ Len(lg.errors) = failed
        /\ run.stage_name = "translating" => lg.stats.failed_translations = failed
        /\ run.stage_name = "generating" => lg.stats.failed_generations = failed

\* ---------------------------------------------------------------- rework

\* the items the resumed run has passed to process_function that the
\* interrupted run had passed to it too
C40_Rework ==
  {run.invoked[k].id : k \in 1..Len(run.invoked)} \cap hist.interrupted.invoked

\* C40: when a run is interrupted and the first call of the next process
\* runs over the same list, the items passed to process_function both before
\* the interruption and after the resume are at most batch_size (of the
\* interrupted run) and all belong to the batch that was in progress.
C40_ReworkWithinOneBatch ==
  (~IsNone(hist.interrupted) /\ run.fresh /\ run.samples = hist.interrupted.samples) =>
    /\ Cardinality(C40_Rework) <= hist.interrupted.batch_size
    /\ C40_Rework \subseteq hist.interrupted.batch
====
